---- MODULE Spec2Model ----
(***************************************************************************)
(* Verification model of the audio-reactive oscilloscope visualizer.       *)
(*                                                                         *)
(* The repository is a set of independent React hooks and components, so   *)
(* the model is a set of independent sub-machines sharing one module:      *)
(*   g*  shape-generator effect lifecycle (requestAnimationFrame loop)     *)
(*   b*  DecisionEngine (useAIBrain) slow path                             *)
(*   f*  FeatureExtractor (useAudioFeatures) beat detector                 *)
(*   x*  channel-pair consumers (XYPlot, WaveformTrail, R3FCanvas)         *)
(*   s*  shape-generator frame contents (planet/chaos/brain/eye/text)      *)
(*   w*  WindowExtractor (useAudioWindow) tick                             *)
(* Each sub-machine has its own specification; the variables of the other  *)
(* sub-machines are parked at a fixed value and left UNCHANGED.            *)
(***************************************************************************)
EXTENDS Integers, Sequences, FiniteSets, TLC

VARIABLES
    \* ---- shape-generator effect lifecycle ----
    gActive,      \* the `active` prop of the last commit
    gParams,      \* the effect's other dependencies (pointsCount, ...)
    gMounted,     \* effect instance whose cleanup is registered (0: none)
    gInstances,   \* number of effect instances created so far
    gRafQueue,    \* browser's pending animation-frame callbacks
    gNextHandle,  \* browser's next requestAnimationFrame handle
    gRequestRef,  \* requestRef.current (0: undefined)
    gFrames,      \* frames run by the mounted instance
    gPublished,   \* instance that published the current (signalA, signalB)
    gStaleRuns,   \* frames run by an instance that was no longer mounted
    gCancels,     \* callbacks cancelled by cleanups so far
    \* ---- DecisionEngine (useAIBrain) ----
    bProfile,         \* activeProfile
    bNow,             \* Date.now()
    bLastModeChange,  \* memoryRef.current.lastModeChange
    bCurrentModeIndex, \* memoryRef.current.currentModeIndex
    bIsGlitching,     \* memoryRef.current.isGlitching
    bState,           \* brainState (the slow-path fields)
    bTimers,          \* pending setTimeout callbacks, in registration order
    bLastEval,        \* what the last step was: "none", "kept" or "switched"
    bLastSwitchAt,    \* clock reading at the most recent switch (-1: none yet)
    bLastSwitchCause, \* what fired the latest switch after the first one: "drop"
                      \* (before 1.5 * minDuration), "timeout" (after it, no beat),
                      \* "late" (after it, on a beat); "none" before a second switch
    bProfileChanges,  \* times the profile argument has changed
    \* ---- FeatureExtractor (useAudioFeatures) beat detector ----
    fNow,          \* Date.now() at the last analysis tick
    fHistory,      \* energyHistoryRef.current
    fLastBeatRef,  \* lastBeatRef.current
    fBeat,         \* the published beat state {isBeat, confidence, lastBeatTime}
    fRmsGlobal,    \* the published rmsGlobal, in hundredths
    fEnergy,       \* RMS of the last tick, in hundredths of full scale
    fElapsed,      \* now - lastBeatRef.current as the last tick read it
    fTicks,        \* analysis ticks run so far
    fAnalyser,     \* ctx.sampleRate and the analyser's fftSize
    fFft,          \* the published fft (fftNorm), in hundredths
    fBands,        \* the published bands; bandSmoothRef holds the smoothed fields
    \* ---- channel-pair consumers (R3FCanvas, XYPlot, WaveformTrail) ----
    xSrc,        \* lengths of the buffers R3FCanvas chooses from
    xLenA,       \* length of the selected xySignalA
    xLenB,       \* length of the selected xySignalB
    xIndex,      \* Math.floor(signalIndex.current) of XYPlot
    xReadsB,     \* indices XYPlot read on the current signalB in its last frame
    xTrailB,     \* indices WaveformTrail read on the current dataB in its last render
    xFrames,     \* XYPlot frames run so far
    \* ---- shape-generator frame contents ----
    sKind,     \* which generator hook: planet, chaos, brain, eye or text
    sParams,   \* its props: pointsCount, cloneCount, layoutMode, grid size, attractorType
    sScale,    \* scaleRef.current, in 1/10000
    sOffsets,  \* offsetsRef.current, coordinates in 1/1000
    sA,        \* the published signalA: Float32 entries, values in 1/1000
    sB,        \* the published signalB
    sWritten,  \* bufferIdx when the pass loops of the last frame ended
    sLast,     \* last step: "init", "frame", "threw" or "change"
    sFrames,   \* frames run so far
    sChanges,  \* prop changes so far
    \* ---- WindowExtractor (useAudioWindow) ----
    wCfg,           \* the options the hook was mounted with
    wData,          \* dataRef.current
    wWindow,        \* the published window (windowBuf)
    wTriggerIndex,  \* the published triggerIndex
    wScale,         \* scaleRef.current, in 1/1000
    wSlice,         \* the slice the last tick took from the analyser
    wTicks,         \* interval ticks run so far
    \* ---- SignalGenerator (signalGenerator.ts) ----
    qCall,          \* the last call: the method and its arguments
    qResult,        \* what the last call returned
    qPrev,          \* what the call before it returned, when that was the same call
    \* ---- file transport (useAudioInput) ----
    tNow,           \* contextRef.current.currentTime
    tFileBuffer,    \* fileBufferRef.current (0: null, else the decoded file)
    tNodes,         \* the AudioBufferSourceNodes created so far
    tSourceNodeRef, \* sourceNodeRef.current (0: null, else an index of tNodes)
    tStartTimeRef,  \* startTimeRef.current
    tPausedAtRef,   \* pausedAtRef.current
    tState,         \* the hook's React state after the updates queued so far
    tSeenPlaying,   \* isPlaying of the last render: what play, pause and seekTo read
    tLoads,         \* loadAudioFile calls waiting for their awaits
    tLast,          \* the last call and what it found
    \* ---- shared AudioContext and the audio hooks ----
    aSharedContext,  \* sharedContext (0: null, else an index of aContexts)
    aSharedAnalyser, \* sharedAnalyser (0: null, else the context it belongs to)
    aContexts,       \* every AudioContext constructed so far
    aMounted,        \* per hook: the context its mounted effect uses (0: not mounted)
    aReturned,       \* pairs returned by getSharedAudioContext since the last reset
    aResets,         \* resetSharedAudioContext calls so far
    \* ---- cube generator frame ----
    cParams,    \* pointsCount and cloneCount of the hook
    cRotation,  \* rotation applied by the last frame (0: none yet)
    cA,         \* signalA
    cB,         \* signalB
    cWritten,   \* bufferIdx when the passes of the last frame ended
    cFrames,    \* frames run so far
    \* ---- XYPlot phosphor trail ----
    rSignal,    \* the pair (signalA, signalB) handed to XYPlot
    rSpeed,     \* the speed prop, buffer indices per second
    rIndex,     \* Math.floor(signalIndex.current)
    rTrail,     \* the drawn trail vertices: position and colour, newest first
    rFrames,    \* useFrame callbacks run so far
    \* ---- DecisionEngine fast path (useFrame of useAIBrain) ----
    pMood,        \* activeProfile.mood
    pRms10,       \* audioFeatures.rmsGlobal of the last frame, in tenths
    pTargetFocus, \* targetFocus of the last frame, in 1/1000
    pFocus,       \* smoothValues.current.focus, in 1/1000
    pFrames,      \* frames run so far
    \* ---- useStereoAudioWindow effect lifecycle ----
    zInstances,   \* every run of the effect: its setup, context, oscillators, interval
    zMounted,     \* the instance whose cleanup has not run yet (0: none)
    zIntervalRef, \* intervalRef.current (0: null)
    zIntervals,   \* interval ids the browser still fires
    zLastFired,   \* the instance whose interval callback fired last (0: none yet)
    \* ---- useAudioInput session: effect, microphone request, file load ----
    iSource,        \* the source prop of the last effect run
    iInstance,      \* effect runs so far; the mounted run while iMounted
    iMounted,       \* the effect of run iInstance is set up and not cleaned up
    iMicPending,    \* effect runs whose getUserMedia request has not settled
    iNodes,         \* source nodes created so far
    iSourceNodeRef, \* sourceNodeRef.current (0: null, else an index of iNodes)
    iPlaying,       \* isPlaying
    iLoads,         \* loadAudioFile calls waiting for their awaits
    iLast,          \* the last step
    \* ---- useTextSignal animation loop ----
    kProps,     \* active, text, pointsCount, cloneCount of the last render
    kFont,      \* the font state is set (FontLoader has delivered)
    kPending,   \* an animate callback is registered with requestAnimationFrame
    kFrames,    \* animate callbacks run so far
    kPublished, \* (signalA, signalB) snapshots published so far
    kRenders,   \* prop changes so far
    kLast,      \* how the last animate callback ended
    \* ---- useAudioFeatures band averages over every analyser setting ----
    hAnalyser,  \* sampleRate and fftSize of the shared analyser
    hFft,       \* the normalised spectrum of the last tick
    hBands,     \* the published band values
    hTicks      \* interval callbacks run so far

genVars == <<gActive, gParams, gMounted, gInstances, gRafQueue, gNextHandle,
             gRequestRef, gFrames, gPublished, gStaleRuns, gCancels>>

brainVars == <<bProfile, bNow, bLastModeChange, bCurrentModeIndex, bIsGlitching,
               bState, bTimers, bLastEval, bLastSwitchAt, bLastSwitchCause,
               bProfileChanges>>

featVars == <<fNow, fHistory, fLastBeatRef, fBeat, fRmsGlobal, fEnergy, fElapsed, fTicks,
              fAnalyser, fFft, fBands>>

xyVars == <<xSrc, xLenA, xLenB, xIndex, xReadsB, xTrailB, xFrames>>

shapeVars == <<sKind, sParams, sScale, sOffsets, sA, sB, sWritten, sLast, sFrames, sChanges>>

winVars == <<wCfg, wData, wWindow, wTriggerIndex, wScale, wSlice, wTicks>>

sigVars == <<qCall, qResult, qPrev>>

transportVars == <<tNow, tFileBuffer, tNodes, tSourceNodeRef, tStartTimeRef, tPausedAtRef,
                   tState, tSeenPlaying, tLoads, tLast>>

ctxVars == <<aSharedContext, aSharedAnalyser, aContexts, aMounted, aReturned, aResets>>

cubeVars == <<cParams, cRotation, cA, cB, cWritten, cFrames>>

trailVars == <<rSignal, rSpeed, rIndex, rTrail, rFrames>>

fastVars == <<pMood, pRms10, pTargetFocus, pFocus, pFrames>>

stereoVars == <<zInstances, zMounted, zIntervalRef, zIntervals, zLastFired>>

inputVars == <<iSource, iInstance, iMounted, iMicPending, iNodes, iSourceNodeRef, iPlaying, iLoads, iLast>>

textVars == <<kProps, kFont, kPending, kFrames, kPublished, kRenders, kLast>>

bandVars == <<hAnalyser, hFft, hBands, hTicks>>

vars == <<genVars, brainVars, featVars, xyVars, shapeVars, winVars, sigVars, transportVars, ctxVars, cubeVars, trailVars, fastVars, stereoVars, inputVars, textVars, bandVars>>

\* What each sub-machine leaves alone.
OthersOfGen == <<brainVars, featVars, xyVars, shapeVars, winVars, sigVars, transportVars, ctxVars, cubeVars, trailVars, fastVars, stereoVars, inputVars, textVars, bandVars>>
OthersOfBrain == <<genVars, featVars, xyVars, shapeVars, winVars, sigVars, transportVars, ctxVars, cubeVars, trailVars, fastVars, stereoVars, inputVars, textVars, bandVars>>
OthersOfFeat == <<genVars, brainVars, xyVars, shapeVars, winVars, sigVars, transportVars, ctxVars, cubeVars, trailVars, fastVars, stereoVars, inputVars, textVars, bandVars>>
OthersOfXY == <<genVars, brainVars, featVars, shapeVars, winVars, sigVars, transportVars, ctxVars, cubeVars, trailVars, fastVars, stereoVars, inputVars, textVars, bandVars>>
OthersOfShape == <<genVars, brainVars, featVars, xyVars, winVars, sigVars, transportVars, ctxVars, cubeVars, trailVars, fastVars, stereoVars, inputVars, textVars, bandVars>>
OthersOfWin == <<genVars, brainVars, featVars, xyVars, shapeVars, sigVars, transportVars, ctxVars, cubeVars, trailVars, fastVars, stereoVars, inputVars, textVars, bandVars>>
OthersOfSig == <<genVars, brainVars, featVars, xyVars, shapeVars, winVars, transportVars, ctxVars, cubeVars, trailVars, fastVars, stereoVars, inputVars, textVars, bandVars>>
OthersOfTransport == <<genVars, brainVars, featVars, xyVars, shapeVars, winVars, sigVars, ctxVars, cubeVars, trailVars, fastVars, stereoVars, inputVars, textVars, bandVars>>
OthersOfCtx == <<genVars, brainVars, featVars, xyVars, shapeVars, winVars, sigVars, transportVars, cubeVars, trailVars, fastVars, stereoVars, inputVars, textVars, bandVars>>
OthersOfCube == <<genVars, brainVars, featVars, xyVars, shapeVars, winVars, sigVars, transportVars, ctxVars, trailVars, fastVars, stereoVars, inputVars, textVars, bandVars>>
OthersOfTrail == <<genVars, brainVars, featVars, xyVars, shapeVars, winVars, sigVars, transportVars, ctxVars, cubeVars, fastVars, stereoVars, inputVars, textVars, bandVars>>
OthersOfFast == <<genVars, brainVars, featVars, xyVars, shapeVars, winVars, sigVars, transportVars, ctxVars, cubeVars, trailVars, stereoVars, inputVars, textVars, bandVars>>
OthersOfStereo == <<genVars, brainVars, featVars, xyVars, shapeVars, winVars, sigVars, transportVars, ctxVars, cubeVars, trailVars, fastVars, inputVars, textVars, bandVars>>
OthersOfInput == <<genVars, brainVars, featVars, xyVars, shapeVars, winVars, sigVars, transportVars, ctxVars, cubeVars, trailVars, fastVars, stereoVars, textVars, bandVars>>
OthersOfText == <<genVars, brainVars, featVars, xyVars, shapeVars, winVars, sigVars, transportVars, ctxVars, cubeVars, trailVars, fastVars, stereoVars, inputVars, bandVars>>
OthersOfBands == <<genVars, brainVars, featVars, xyVars, shapeVars, winVars, sigVars, transportVars, ctxVars, cubeVars, trailVars, fastVars, stereoVars, inputVars, textVars>>

(***************************************************************************)
(* Parked values: the state of a sub-machine that is not running.          *)
(***************************************************************************)
ParkGen ==
    /\ gActive = FALSE /\ gParams = 1 /\ gMounted = 0 /\ gInstances = 0
    /\ gRafQueue = {} /\ gNextHandle = 1 /\ gRequestRef = 0 /\ gFrames = 0
    /\ gPublished = 0 /\ gStaleRuns = 0 /\ gCancels = 0

ParkBrain ==
    /\ bProfile = "none" /\ bNow = 0 /\ bLastModeChange = 0
    /\ bCurrentModeIndex = 0 /\ bIsGlitching = FALSE /\ bState = "none"
    /\ bTimers = <<>> /\ bLastEval = "none" /\ bLastSwitchAt = -1
    /\ bLastSwitchCause = "none"
    /\ bProfileChanges = 0

ParkFeat ==
    /\ fNow = 0 /\ fHistory = <<>> /\ fLastBeatRef = 0 /\ fBeat = "none"
    /\ fRmsGlobal = 0 /\ fEnergy = 0 /\ fElapsed = 0 /\ fTicks = 0
    /\ fAnalyser = "none" /\ fFft = <<>> /\ fBands = "none"

ParkXY ==
    /\ xSrc = "none" /\ xLenA = 0 /\ xLenB = 0 /\ xIndex = 0
    /\ xReadsB = {} /\ xTrailB = {} /\ xFrames = 0

ParkShape ==
    /\ sKind = "none" /\ sParams = "none" /\ sScale = 0 /\ sOffsets = <<>>
    /\ sA = <<>> /\ sB = <<>> /\ sWritten = 0 /\ sLast = "init"
    /\ sFrames = 0 /\ sChanges = 0

ParkWin ==
    /\ wCfg = "none" /\ wData = <<>> /\ wWindow = <<>> /\ wTriggerIndex = 0
    /\ wScale = 0 /\ wSlice = <<>> /\ wTicks = 0

ParkSig ==
    /\ qCall = [op |-> "none"] /\ qResult = <<>> /\ qPrev = [valid |-> FALSE]

ParkTransport ==
    /\ tNow = 0 /\ tFileBuffer = 0 /\ tNodes = <<>> /\ tSourceNodeRef = 0
    /\ tStartTimeRef = 0 /\ tPausedAtRef = 0 /\ tState = [isPlaying |-> FALSE]
    /\ tSeenPlaying = FALSE /\ tLoads = <<>> /\ tLast = [op |-> "none"]

ParkCtx ==
    /\ aSharedContext = 0 /\ aSharedAnalyser = 0 /\ aContexts = <<>>
    /\ aMounted = <<>> /\ aReturned = {} /\ aResets = 0

ParkCube ==
    /\ cParams = [pointsCount |-> 0, cloneCount |-> 0] /\ cRotation = 0
    /\ cA = <<>> /\ cB = <<>> /\ cWritten = 0 /\ cFrames = 0

ParkTrail ==
    /\ rSignal = [a |-> <<>>, b |-> <<>>] /\ rSpeed = 0 /\ rIndex = 0
    /\ rTrail = <<>> /\ rFrames = 0

ParkFast ==
    /\ pMood = "none" /\ pRms10 = 0 /\ pTargetFocus = 0 /\ pFocus = 0 /\ pFrames = 0

ParkStereo ==
    /\ zInstances = <<>> /\ zMounted = 0 /\ zIntervalRef = 0
    /\ zIntervals = {} /\ zLastFired = 0

ParkInput ==
    /\ iSource = "none" /\ iInstance = 0 /\ iMounted = FALSE /\ iMicPending = {}
    /\ iNodes = <<>> /\ iSourceNodeRef = 0 /\ iPlaying = FALSE /\ iLoads = <<>>
    /\ iLast = "none"

ParkText ==
    /\ kProps = [active |-> FALSE, text |-> "", pointsCount |-> 0, cloneCount |-> 0]
    /\ kFont = FALSE /\ kPending = FALSE /\ kFrames = 0 /\ kPublished = 0
    /\ kRenders = 0 /\ kLast = "none"

ParkBands ==
    /\ hAnalyser = [sampleRate |-> 0, fftSize |-> 0]
    /\ hFft = <<>>
    /\ hBands = [low |-> [instant |-> [nan |-> FALSE, v |-> 0], smoothed |-> [nan |-> FALSE, v |-> 0]],
                 mid |-> [instant |-> [nan |-> FALSE, v |-> 0], smoothed |-> [nan |-> FALSE, v |-> 0]],
                 high |-> [instant |-> [nan |-> FALSE, v |-> 0], smoothed |-> [nan |-> FALSE, v |-> 0]]]
    /\ hTicks = 0

ParkOthersOfGen == ParkBrain /\ ParkFeat /\ ParkXY /\ ParkShape /\ ParkWin /\ ParkSig /\ ParkTransport /\ ParkCtx /\ ParkCube /\ ParkTrail /\ ParkFast /\ ParkStereo /\ ParkInput /\ ParkText /\ ParkBands
ParkOthersOfBrain == ParkGen /\ ParkFeat /\ ParkXY /\ ParkShape /\ ParkWin /\ ParkSig /\ ParkTransport /\ ParkCtx /\ ParkCube /\ ParkTrail /\ ParkFast /\ ParkStereo /\ ParkInput /\ ParkText /\ ParkBands
ParkOthersOfFeat == ParkGen /\ ParkBrain /\ ParkXY /\ ParkShape /\ ParkWin /\ ParkSig /\ ParkTransport /\ ParkCtx /\ ParkCube /\ ParkTrail /\ ParkFast /\ ParkStereo /\ ParkInput /\ ParkText /\ ParkBands
ParkOthersOfXY == ParkGen /\ ParkBrain /\ ParkFeat /\ ParkShape /\ ParkWin /\ ParkSig /\ ParkTransport /\ ParkCtx /\ ParkCube /\ ParkTrail /\ ParkFast /\ ParkStereo /\ ParkInput /\ ParkText /\ ParkBands
ParkOthersOfShape == ParkGen /\ ParkBrain /\ ParkFeat /\ ParkXY /\ ParkWin /\ ParkSig /\ ParkTransport /\ ParkCtx /\ ParkCube /\ ParkTrail /\ ParkFast /\ ParkStereo /\ ParkInput /\ ParkText /\ ParkBands
ParkOthersOfWin == ParkGen /\ ParkBrain /\ ParkFeat /\ ParkXY /\ ParkShape /\ ParkSig /\ ParkTransport /\ ParkCtx /\ ParkCube /\ ParkTrail /\ ParkFast /\ ParkStereo /\ ParkInput /\ ParkText /\ ParkBands
ParkOthersOfSig == ParkGen /\ ParkBrain /\ ParkFeat /\ ParkXY /\ ParkShape /\ ParkWin /\ ParkTransport /\ ParkCtx /\ ParkCube /\ ParkTrail /\ ParkFast /\ ParkStereo /\ ParkInput /\ ParkText /\ ParkBands
ParkOthersOfTransport == ParkGen /\ ParkBrain /\ ParkFeat /\ ParkXY /\ ParkShape /\ ParkWin /\ ParkSig /\ ParkCtx /\ ParkCube /\ ParkTrail /\ ParkFast /\ ParkStereo /\ ParkInput /\ ParkText /\ ParkBands
ParkOthersOfCtx == ParkGen /\ ParkBrain /\ ParkFeat /\ ParkXY /\ ParkShape /\ ParkWin /\ ParkSig /\ ParkTransport /\ ParkCube /\ ParkTrail /\ ParkFast /\ ParkStereo /\ ParkInput /\ ParkText /\ ParkBands
ParkOthersOfCube == ParkGen /\ ParkBrain /\ ParkFeat /\ ParkXY /\ ParkShape /\ ParkWin /\ ParkSig /\ ParkTransport /\ ParkCtx /\ ParkTrail /\ ParkFast /\ ParkStereo /\ ParkInput /\ ParkText /\ ParkBands
ParkOthersOfTrail == ParkGen /\ ParkBrain /\ ParkFeat /\ ParkXY /\ ParkShape /\ ParkWin /\ ParkSig /\ ParkTransport /\ ParkCtx /\ ParkCube /\ ParkFast /\ ParkStereo /\ ParkInput /\ ParkText /\ ParkBands
ParkOthersOfFast == ParkGen /\ ParkBrain /\ ParkFeat /\ ParkXY /\ ParkShape /\ ParkWin /\ ParkSig /\ ParkTransport /\ ParkCtx /\ ParkCube /\ ParkTrail /\ ParkStereo /\ ParkInput /\ ParkText /\ ParkBands
ParkOthersOfStereo == ParkGen /\ ParkBrain /\ ParkFeat /\ ParkXY /\ ParkShape /\ ParkWin /\ ParkSig /\ ParkTransport /\ ParkCtx /\ ParkCube /\ ParkTrail /\ ParkFast /\ ParkInput /\ ParkText /\ ParkBands
ParkOthersOfInput == ParkGen /\ ParkBrain /\ ParkFeat /\ ParkXY /\ ParkShape /\ ParkWin /\ ParkSig /\ ParkTransport /\ ParkCtx /\ ParkCube /\ ParkTrail /\ ParkFast /\ ParkStereo /\ ParkText /\ ParkBands
ParkOthersOfText == ParkGen /\ ParkBrain /\ ParkFeat /\ ParkXY /\ ParkShape /\ ParkWin /\ ParkSig /\ ParkTransport /\ ParkCtx /\ ParkCube /\ ParkTrail /\ ParkFast /\ ParkStereo /\ ParkInput /\ ParkBands
ParkOthersOfBands == ParkGen /\ ParkBrain /\ ParkFeat /\ ParkXY /\ ParkShape /\ ParkWin /\ ParkSig /\ ParkTransport /\ ParkCtx /\ ParkCube /\ ParkTrail /\ ParkFast /\ ParkStereo /\ ParkInput /\ ParkText

(***************************************************************************)
(* Bounds of the model (not program constants).                            *)
(***************************************************************************)
MaxInstances == 4
MaxHandle == 7
\* Date.now() when the hook mounts, in ms. The real clock reads about 1.7e12;
\* any reading above 1.5 * 15000 behaves the same against lastModeChange = 0.
EpochNow == 100000
\* How far past EpochNow the brain's clock is followed, in ms.
BrainHorizon == 25000
\* Pending setTimeout callbacks followed at once.
MaxTimers == 3
\* Changes of the profile argument followed.
MaxProfileChanges == 1
\* Analysis ticks of the FeatureExtractor followed.
MaxTicks == 4
\* Longest channel buffer, longest phosphor trail and frames of XYPlot followed.
MaxLen == 3
MaxTrail == 3
MaxXYFrames == 3
\* Frames and prop changes of a shape generator followed.
MaxShapeFrames == 8
MaxChanges == 1
\* Largest windowSize and interval ticks of the WindowExtractor followed.
MaxWindow == 4
MaxWinTicks == 2
\* Longest buffer handed to findTriggerPoint directly.
MaxTrigLen == 4
\* Playback nodes, pending file loads and seconds of audio clock followed.
MaxNodes == 2
MaxLoads == 1
MaxTime == 2
MaxContexts == 3
MaxResets == 1
MaxCubeFrames == 3
MaxTrailFrames == 3
MaxFastFrames == 3
MaxStereoInstances == 2
MaxInputInstances == 2
MaxTextFrames == 3
MaxTextRenders == 1
MaxBandTicks == 3

Min(a, b) == IF a < b THEN a ELSE b
Max(a, b) == IF a > b THEN a ELSE b

\* A JavaScript number kept in fixed point: NaN, or the finite value v.
Fin(v) == [nan |-> FALSE, v |-> v]
NaN == [nan |-> TRUE, v |-> 0]

(***************************************************************************)
(* Shape-generator effect lifecycle: useChaosSignal / useCubeSignal.       *)
(* The effect `useEffect(() => { if (!active) return; ... rAF(animate);    *)
(* return cleanup }, [active, pointsCount, ...])` and its animate loop.    *)
(***************************************************************************)
GenParamValues == {1, 2}

\* requestAnimationFrame(animate): the browser appends the callback and
\* returns a fresh non-zero handle.
RequestAnimationFrame(queue, handle, inst) ==
    queue \cup {[id |-> handle, inst |-> inst]}

\* cancelAnimationFrame(id): removes the callback with that handle, if any.
CancelAnimationFrame(queue, id) == {cb \in queue : cb.id # id}

\* A cleanup that forgets to cancel the pending frame.
CleanupNoCancel(queue, ref) == queue

\* The effect's cleanup: if (requestRef.current) cancelAnimationFrame(requestRef.current)
GenCleanup(queue, ref) ==
    IF ref # 0 THEN CancelAnimationFrame(queue, ref) ELSE queue

\* Queue after the cleanup of the mounted instance, if one is registered.
\* An effect run that returned early (!active) registered no cleanup.
GenAfterCleanup == IF gMounted # 0 THEN GenCleanup(gRafQueue, gRequestRef) ELSE gRafQueue

InitGen ==
    /\ ParkOthersOfGen
    /\ gActive = FALSE
    /\ gParams \in GenParamValues
    /\ gMounted = 0
    /\ gInstances = 0
    /\ gRafQueue = {}
    /\ gNextHandle = 1
    /\ gRequestRef = 0
    /\ gFrames = 0
    /\ gPublished = 0
    /\ gStaleRuns = 0
    /\ gCancels = 0

\* A commit in which a dependency of the effect changed: React runs the
\* previous cleanup, then the effect body with the new props.
GenCommit ==
    \E a \in BOOLEAN, p \in GenParamValues :
        /\ <<a, p>> # <<gActive, gParams>>
        /\ gInstances < MaxInstances
        /\ gNextHandle <= MaxHandle
        /\ gActive' = a
        /\ gParams' = p
        /\ gCancels' = gCancels + Cardinality(gRafQueue \ GenAfterCleanup)
        /\ IF a
           THEN /\ gInstances' = gInstances + 1
                /\ gMounted' = gInstances + 1
                /\ gRafQueue' = RequestAnimationFrame(GenAfterCleanup, gNextHandle, gInstances + 1)
                /\ gRequestRef' = gNextHandle
                /\ gNextHandle' = gNextHandle + 1
                /\ gFrames' = 0
           ELSE /\ gMounted' = 0
                /\ gRafQueue' = GenAfterCleanup
                /\ UNCHANGED <<gInstances, gRequestRef, gNextHandle, gFrames>>
        /\ UNCHANGED <<gPublished, gStaleRuns>>
        /\ UNCHANGED OthersOfGen

\* The browser runs one pending callback: animate() of the instance that
\* registered it builds the buffers, publishes them (setSignalA/setSignalB)
\* and registers itself for the next frame.
GenFrame ==
    \E cb \in gRafQueue :
        /\ gNextHandle <= MaxHandle
        /\ gPublished' = cb.inst
        /\ gStaleRuns' = IF cb.inst = gMounted THEN gStaleRuns ELSE gStaleRuns + 1
        /\ gFrames' = IF cb.inst = gMounted THEN gFrames + 1 ELSE gFrames
        /\ gRafQueue' = RequestAnimationFrame(gRafQueue \ {cb}, gNextHandle, cb.inst)
        /\ gRequestRef' = gNextHandle
        /\ gNextHandle' = gNextHandle + 1
        /\ UNCHANGED <<gActive, gParams, gMounted, gInstances, gCancels>>
        /\ UNCHANGED OthersOfGen

NextGen == GenCommit \/ GenFrame

SpecGen == InitGen /\ [][NextGen]_vars

(***************************************************************************)
(* C1: once a generator instance is deactivated (active becomes false or   *)
(* the effect is re-run for a changed parameter) its pending frame         *)
(* callback is gone: every pending callback belongs to the mounted         *)
(* instance, no frame of an unmounted instance has ever run, and while no  *)
(* instance is mounted no callback is pending at all.                      *)
(***************************************************************************)
C1_CancelOnDeactivate ==
    /\ \A cb \in gRafQueue : gMounted # 0 /\ cb.inst = gMounted
    /\ gStaleRuns = 0
    /\ (gMounted = 0 => gRafQueue = {})
    /\ Cardinality(gRafQueue) <= 1

\* Deactivated after at least two frames ran, the pending callback cancelled.
C1_Witness ==
    /\ ~gActive
    /\ gMounted = 0
    /\ gPublished # 0
    /\ gCancels >= 1
    /\ gNextHandle >= 4
    /\ gRafQueue = {}
(***************************************************************************)
(* DecisionEngine: useAIBrain, the slow path (the useEffect on             *)
(* [activeProfile, audioFeatures, brainState.cloneCount]) and the timers   *)
(* it starts. Fractions are kept in tenths (complexity10, confidence10,    *)
(* rms10, targetScale10).                                                  *)
(***************************************************************************)
DEFAULT_PROFILE ==
    [mood |-> "neutral", complexity10 |-> 5, pace |-> "medium",
     color_bias |-> "green_default",
     preferred_modes |-> <<"cube", "brain", "default", "chaos", "text", "planet", "eye">>,
     has_suggestions |-> TRUE,
     suggested_words |-> <<"AI", "ALIVE", "PULSE", "SIGNAL", "NOISE", "ECHO", "VOID",
                           "NEXUS", "DREAM", "WAKE">>,
     suggested_attractors |-> <<"lorenz", "rossler", "aizawa">>]

\* Profiles the classification service can hand to the hook: the default, the
\* server's parse-failure fallback, and profiles with one, no and three modes.
BrainProfiles ==
    { DEFAULT_PROFILE,
      [mood |-> "neutral", complexity10 |-> 5, pace |-> "medium",
       color_bias |-> "green_default", preferred_modes |-> <<"cube", "brain">>,
       has_suggestions |-> FALSE, suggested_words |-> <<>>, suggested_attractors |-> <<>>],
      [mood |-> "aggressive", complexity10 |-> 9, pace |-> "frenetic",
       color_bias |-> "red_shift", preferred_modes |-> <<"chaos">>,
       has_suggestions |-> TRUE, suggested_words |-> <<"VOID">>,
       suggested_attractors |-> <<"aizawa", "lorenz">>],
      [mood |-> "digital", complexity10 |-> 7, pace |-> "fast",
       color_bias |-> "neon_mix", preferred_modes |-> <<>>,
       has_suggestions |-> TRUE, suggested_words |-> <<"PULSE", "GRID">>,
       suggested_attractors |-> <<"rossler">>],
      [mood |-> "calm", complexity10 |-> 2, pace |-> "slow",
       color_bias |-> "blue_cool", preferred_modes |-> <<"default", "brain", "text">>,
       has_suggestions |-> FALSE, suggested_words |-> <<>>, suggested_attractors |-> <<>>] }

\* Audio-feature snapshots an evaluation can see: silence, a weak beat, a loud
\* beat of low confidence, and a qualifying drop.
BrainFeatures ==
    { [isBeat |-> FALSE, confidence10 |-> 0, rms10 |-> 3],
      [isBeat |-> TRUE, confidence10 |-> 8, rms10 |-> 9],
      [isBeat |-> TRUE, confidence10 |-> 9, rms10 |-> 5],
      [isBeat |-> TRUE, confidence10 |-> 9, rms10 |-> 7] }

\* Clock steps between two events, in ms.
BrainSteps == {2500, 7500}

\* A minimum duration that treats a fast profile like a frenetic one.
MinDurationShort(pace) ==
    IF pace = "frenetic" THEN 2000
    ELSE IF pace = "fast" THEN 2000
    ELSE IF pace = "slow" THEN 15000 ELSE 8000

MinDuration(pace) ==
    IF pace = "frenetic" THEN 2000
    ELSE IF pace = "fast" THEN 5000
    ELSE IF pace = "slow" THEN 15000 ELSE 8000

IsDrop(f) == f.isBeat /\ f.confidence10 > 8 /\ f.rms10 > 5

\* A decision that needs a drop even after 1.5 * minDuration.
ShouldSwitchDropOnly(now, last, minDuration, f) ==
    (now - last > minDuration) /\ IsDrop(f)

\* timeSinceChange > minDuration && (isDrop || now - lastModeChange > minDuration * 1.5)
ShouldSwitch(now, last, minDuration, f) ==
    (now - last > minDuration) /\ (IsDrop(f) \/ 2 * (now - last) > 3 * minDuration)

PreferredModes(profile) ==
    IF Len(profile.preferred_modes) > 0
    THEN profile.preferred_modes
    ELSE <<"cube", "default", "chaos", "text">>

\* An index that is reduced to the list but does not advance.
NextIndexStay(index, modes) == index % Len(modes)

\* (mem.currentModeIndex + 1) % preferredModes.length
NextIndex(index, modes) == (index + 1) % Len(modes)

SuggestedAttractors(profile) ==
    IF profile.has_suggestions THEN profile.suggested_attractors
    ELSE <<"lorenz", "rossler", "aizawa">>

SuggestedWords(profile) ==
    IF profile.has_suggestions THEN profile.suggested_words ELSE <<"AI">>

NextLayout(profile, nextIndex) ==
    IF profile.complexity10 > 6 /\ nextIndex % 2 = 0 THEN "grid" ELSE "polygon"

NextClones(profile, nextIndex) ==
    IF NextLayout(profile, nextIndex) = "grid" THEN 6
    ELSE Max(1, (profile.complexity10 * 4) \div 10)

NextViewMode(profile, nextMode) ==
    IF nextMode \in {"default", "brain"} /\ profile.pace = "slow" THEN "yt" ELSE "xy"

NextBeamSpeed(pace) ==
    IF pace = "frenetic" THEN 2000
    ELSE IF pace = "fast" THEN 1500
    ELSE IF pace = "slow" THEN 500 ELSE 1000

NextScale10(nextMode) ==
    IF nextMode = "chaos" THEN 9
    ELSE IF nextMode = "text" THEN 5
    ELSE IF nextMode = "planet" THEN 6
    ELSE IF nextMode = "brain" THEN 7
    ELSE IF nextMode = "cube" THEN 8 ELSE 10

TargetColor(profile, f) ==
    IF profile.color_bias = "red_shift"
    THEN (IF f.rms10 > 6 THEN "#ffaa00" ELSE "#ff0000")
    ELSE IF profile.color_bias = "blue_cool" THEN "#00ffff"
    ELSE IF profile.color_bias = "neon_mix"
    THEN (IF f.isBeat THEN "#ff00ff" ELSE "#00ffff")
    ELSE "#00ff00"

\* The state patch the deferred setBrainState of a switch applies.
SwitchPatch(profile, nextIndex) ==
    LET nextMode == PreferredModes(profile)[nextIndex + 1]
        attractors == SuggestedAttractors(profile)
        words == SuggestedWords(profile)
    IN  [currentFigure |-> nextMode,
         attractorType |-> attractors[(nextIndex % Len(attractors)) + 1],
         textString |-> words[(nextIndex % Len(words)) + 1],
         layoutMode |-> NextLayout(profile, nextIndex),
         cloneCount |-> NextClones(profile, nextIndex),
         mode |-> NextViewMode(profile, nextMode),
         beamSpeed |-> NextBeamSpeed(profile.pace),
         targetScale10 |-> NextScale10(nextMode)]

\* setTimeout(callback, delay) at clock reading `now`.
SetTimeout(timers, kind, now, delay, patch) ==
    Append(timers, [kind |-> kind, due |-> now + delay, patch |-> patch])

\* setTimeout(() => { mem.isGlitching = false; }, 400), which never clears.
GlitchTimerIdle(timers, now) == SetTimeout(timers, "idle", now, 400, [none |-> TRUE])

\* setTimeout(() => { mem.isGlitching = false; }, 400)
GlitchTimer(timers, now) == SetTimeout(timers, "glitchOff", now, 400, [none |-> TRUE])

\* The timer the browser runs next: the earliest due one, the first registered
\* among equals, once its time has come.
FirstDue(timers, now) ==
    { i \in 1..Len(timers) :
        /\ timers[i].due <= now
        /\ \A j \in 1..Len(timers) :
              j # i => (timers[j].due > timers[i].due
                        \/ (timers[j].due = timers[i].due /\ j > i)) }

RemoveAt(seq, i) == SubSeq(seq, 1, i - 1) \o SubSeq(seq, i + 1, Len(seq))

InitBrain ==
    /\ ParkOthersOfBrain
    /\ bProfile \in BrainProfiles
    /\ bNow = EpochNow
    /\ bLastModeChange = 0
    /\ bCurrentModeIndex = 0
    /\ bIsGlitching = FALSE
    /\ bState = [currentFigure |-> "cube", color |-> "#00ff00",
                 attractorType |-> "lorenz", textString |-> "AI",
                 layoutMode |-> "polygon", cloneCount |-> 1, mode |-> "xy",
                 beamSpeed |-> 1000, targetScale10 |-> 10]
    /\ bTimers = <<>>
    /\ bLastEval = "none"
    /\ bLastSwitchAt = -1
    /\ bLastSwitchCause = "none"
    /\ bProfileChanges = 0

\* Time passes; callbacks that are already due run before the clock moves on.
BrainAdvance ==
    \E dt \in BrainSteps :
        /\ bNow + dt <= EpochNow + BrainHorizon
        /\ FirstDue(bTimers, bNow) = {}
        /\ bNow' = bNow + dt
        /\ bLastEval' = "none"
        /\ UNCHANGED <<bProfile, bLastModeChange, bCurrentModeIndex, bIsGlitching,
                       bState, bTimers, bLastSwitchAt, bLastSwitchCause,
                       bProfileChanges>>
        /\ UNCHANGED OthersOfBrain

\* One run of the decision effect: it runs when the profile or the audio-feature
\* snapshot it depends on changes, with the values of that render.
BrainEvaluate ==
    \E f \in BrainFeatures, activeProfile \in BrainProfiles :
        LET minDuration == MinDuration(activeProfile.pace)
            switch == ShouldSwitch(bNow, bLastModeChange, minDuration, f)
            nextIndex == NextIndex(bCurrentModeIndex, PreferredModes(activeProfile))
            afterSwitch ==
                IF switch
                THEN SetTimeout(GlitchTimer(bTimers, bNow),
                                "setMode", bNow, 0, SwitchPatch(activeProfile, nextIndex))
                ELSE bTimers
        IN  /\ Len(bTimers) + (IF switch THEN 3 ELSE 1) <= MaxTimers
            \* a callback whose time has passed runs before a later render's effect
            /\ \A i \in 1..Len(bTimers) : bTimers[i].due >= bNow
            /\ activeProfile # bProfile => bProfileChanges < MaxProfileChanges
            /\ bProfileChanges' = bProfileChanges + (IF activeProfile # bProfile THEN 1 ELSE 0)
            /\ bCurrentModeIndex' = IF switch THEN nextIndex ELSE bCurrentModeIndex
            /\ bLastModeChange' = IF switch THEN bNow ELSE bLastModeChange
            /\ bIsGlitching' = IF switch THEN TRUE ELSE bIsGlitching
            /\ bTimers' = SetTimeout(afterSwitch, "setColor", bNow, 0,
                                     [color |-> TargetColor(activeProfile, f)])
            /\ bLastEval' = IF switch THEN "switched" ELSE "kept"
            /\ bLastSwitchAt' = IF switch THEN bNow ELSE bLastSwitchAt
            /\ bLastSwitchCause' =
                 IF switch /\ bLastSwitchAt # -1
                 THEN IF 2 * (bNow - bLastSwitchAt) <= 3 * minDuration THEN "drop"
                      ELSE IF f.isBeat THEN "late" ELSE "timeout"
                 ELSE bLastSwitchCause
            /\ bProfile' = activeProfile
            /\ UNCHANGED <<bNow, bState>>
            /\ UNCHANGED OthersOfBrain

\* The browser runs a due timer callback.
BrainTimer ==
    \E i \in FirstDue(bTimers, bNow) :
        LET t == bTimers[i]
        IN  /\ bTimers' = RemoveAt(bTimers, i)
            /\ bIsGlitching' = IF t.kind = "glitchOff" THEN FALSE ELSE bIsGlitching
            /\ bState' =
                 IF t.kind = "setMode"
                 THEN [currentFigure |-> t.patch.currentFigure, color |-> bState.color,
                       attractorType |-> t.patch.attractorType,
                       textString |-> t.patch.textString,
                       layoutMode |-> t.patch.layoutMode,
                       cloneCount |-> t.patch.cloneCount, mode |-> t.patch.mode,
                       beamSpeed |-> t.patch.beamSpeed,
                       targetScale10 |-> t.patch.targetScale10]
                 ELSE IF t.kind = "setColor"
                 THEN [bState EXCEPT !.color = t.patch.color]
                 ELSE bState
            /\ bLastEval' = "none"
            /\ UNCHANGED <<bProfile, bNow, bLastModeChange, bCurrentModeIndex,
                           bLastSwitchAt, bLastSwitchCause, bProfileChanges>>
            /\ UNCHANGED OthersOfBrain

NextBrain == BrainAdvance \/ BrainEvaluate \/ BrainTimer

SpecBrain == InitBrain /\ [][NextBrain]_vars

(***************************************************************************)
(* C2: a mode switch happens no sooner than minDuration(pace) after the    *)
(* previous switch (2000 ms frenetic, 5000 ms fast, 15000 ms slow, 8000 ms *)
(* otherwise), whatever the audio features are.                            *)
(***************************************************************************)
C2_MinDurationBetweenSwitches ==
    [][(bLastEval' = "switched" /\ bLastSwitchAt # -1)
          => bNow' - bLastSwitchAt >=
                (IF bProfile'.pace = "frenetic" THEN 2000
                 ELSE IF bProfile'.pace = "fast" THEN 5000
                 ELSE IF bProfile'.pace = "slow" THEN 15000 ELSE 8000)]_vars

\* A second switch, triggered by a drop before the 1.5 * minDuration fallback.
C2_Witness ==
    /\ bLastEval = "switched"
    /\ bLastSwitchCause = "drop"
    /\ bNow - bLastSwitchAt = 0

(***************************************************************************)
(* C3 as stated: an evaluation later than 1.5 * minDuration after the last *)
(* switch switches, and the current mode is not the one it was.            *)
(***************************************************************************)
C3_ModeAlwaysChanges ==
    [][(bLastEval' \in {"kept", "switched"}
        /\ 2 * (bNow - bLastModeChange) > 3 * MinDuration(bProfile'.pace))
          => (bLastEval' = "switched" /\ bCurrentModeIndex' # bCurrentModeIndex)]_vars

(***************************************************************************)
(* C3 amended: an evaluation later than 1.5 * minDuration after the last   *)
(* switch switches even without a beat: the switch time is reset and the   *)
(* index advances by one modulo the length of the list in use. The index   *)
(* changes whenever that list has at least two entries; with a one-entry   *)
(* list it becomes 0 and then stays 0 on every further switch.             *)
(***************************************************************************)
C3_FallbackSwitch ==
    [][(bLastEval' \in {"kept", "switched"}
        /\ 2 * (bNow - bLastModeChange) > 3 * MinDuration(bProfile'.pace))
          => /\ bLastEval' = "switched"
             /\ bLastModeChange' = bNow
             /\ bCurrentModeIndex' = (bCurrentModeIndex + 1) % Len(PreferredModes(bProfile'))
             /\ (bCurrentModeIndex' # bCurrentModeIndex
                   <=> (Len(PreferredModes(bProfile')) >= 2 \/ bCurrentModeIndex # 0))]_vars

\* A fallback switch without any beat, after an earlier switch.
C3_Witness ==
    /\ bLastEval = "switched"
    /\ bLastSwitchCause = "timeout"
    /\ bCurrentModeIndex >= 1

(***************************************************************************)
(* C17: the engine starts showing the first entry of the preferred-mode    *)
(* list, with zero elapsed time since the last switch and not glitching;   *)
(* so an evaluation made before any switch and within minDuration of the   *)
(* start keeps the mode: the first entry stays for at least minDuration.   *)
(***************************************************************************)
C17_StartsOnFirstModeAndKeepsIt ==
    /\ (/\ bState.currentFigure = PreferredModes(bProfile)[1]
        /\ bNow - bLastModeChange = 0
        /\ ~bIsGlitching)
    /\ [][(bLastEval' \in {"kept", "switched"}
           /\ bLastModeChange = 0
           /\ bNow - EpochNow < MinDuration(bProfile'.pace))
             => /\ bLastEval' = "kept"
                /\ bCurrentModeIndex' = 0
                /\ ~bIsGlitching']_vars

\* The evaluation made at the very start, on a list of several modes: it has
\* switched to the second entry and started a glitch.
C17_Witness ==
    /\ bLastEval = "switched"
    /\ bNow = EpochNow
    /\ bLastModeChange = EpochNow
    /\ bLastSwitchCause = "none"
    /\ Len(PreferredModes(bProfile)) >= 2
    /\ bCurrentModeIndex = 1
    /\ bIsGlitching

(***************************************************************************)
(* C28 as stated: every switch sets the index to (index + 1) mod N, N the  *)
(* length of the list in use, and selects the list entry at that index; in *)
(* every reachable state 0 <= index < N; between switches the index does   *)
(* not change.                                                             *)
(***************************************************************************)
C28_IndexAlwaysInsideList ==
    /\ [](0 <= bCurrentModeIndex /\ bCurrentModeIndex < Len(PreferredModes(bProfile)))
    /\ [][/\ bLastEval' = "switched" =>
                /\ bCurrentModeIndex' =
                       (bCurrentModeIndex + 1) % Len(PreferredModes(bProfile'))
                /\ bTimers'[Len(bTimers') - 1].patch.currentFigure =
                       PreferredModes(bProfile')[bCurrentModeIndex' + 1]
          /\ bLastEval' # "switched" => bCurrentModeIndex' = bCurrentModeIndex]_vars

(***************************************************************************)
(* C28 amended: every switch sets the index to (index + 1) mod N, N the    *)
(* length of the list of the profile the evaluation runs with, and selects *)
(* the list entry at that index, so right after a switch 0 <= index < N;   *)
(* between switches the index does not change, also when the profile       *)
(* changes, so under a new profile with a shorter list the stored index    *)
(* can be N or more until the next switch.                                 *)
(***************************************************************************)
C28_IndexInsideListAfterSwitch ==
    [][/\ bLastEval' = "switched" =>
             /\ bCurrentModeIndex' =
                    (bCurrentModeIndex + 1) % Len(PreferredModes(bProfile'))
             /\ 0 <= bCurrentModeIndex'
             /\ bCurrentModeIndex' < Len(PreferredModes(bProfile'))
             /\ bTimers'[Len(bTimers') - 1].kind = "setMode"
             /\ bTimers'[Len(bTimers') - 1].patch.currentFigure =
                    PreferredModes(bProfile')[bCurrentModeIndex' + 1]
       /\ bLastEval' # "switched" => bCurrentModeIndex' = bCurrentModeIndex]_vars

\* An evaluation under a new profile with a shorter list that kept the mode:
\* the stored index lies outside the list.
C28_Witness ==
    /\ bLastEval = "kept"
    /\ bProfileChanges = 1
    /\ bLastSwitchAt # -1
    /\ bCurrentModeIndex >= Len(PreferredModes(bProfile))

\* The pending timers that clear the glitch flag.
GlitchExpiries(timers) == { i \in 1..Len(timers) : timers[i].kind = "glitchOff" }

\* The hook as mounted five seconds before the end of the horizon.
InitBrainLive ==
    /\ ParkOthersOfBrain
    /\ bProfile \in BrainProfiles
    /\ bNow = EpochNow + BrainHorizon - 5000
    /\ bLastModeChange = 0
    /\ bCurrentModeIndex = 0
    /\ bIsGlitching = FALSE
    /\ bState = [currentFigure |-> "cube", color |-> "#00ff00",
                 attractorType |-> "lorenz", textString |-> "AI",
                 layoutMode |-> "polygon", cloneCount |-> 1, mode |-> "xy",
                 beamSpeed |-> 1000, targetScale10 |-> 10]
    /\ bTimers = <<>>
    /\ bLastEval = "none"
    /\ bLastSwitchAt = -1
    /\ bLastSwitchCause = "none"
    /\ bProfileChanges = 0

\* The browser gets through the callbacks that are due, however many are
\* queued, and time keeps passing.
SpecBrainLive ==
    /\ InitBrainLive
    /\ [][NextBrain]_vars
    /\ \A n \in 0..MaxTimers : SF_vars(BrainTimer /\ Len(bTimers') <= n)
    /\ SF_vars(BrainAdvance)

(***************************************************************************)
(* C29: the glitch flag is set at each switch and cleared by the timer     *)
(* registered 400 ms after it: while the flag is true the expiry timer of  *)
(* the latest switch is pending, the flag becomes false again, and at a    *)
(* switch no expiry timer of an earlier switch is left pending, so an      *)
(* expiry timer fires no sooner than 400 ms after the latest switch.       *)
(***************************************************************************)
C29_GlitchWindow ==
    /\ [](bIsGlitching =>
             \E i \in GlitchExpiries(bTimers) : bTimers[i].due = bLastSwitchAt + 400)
    /\ [](Cardinality(GlitchExpiries(bTimers)) <= 1)
    /\ [][/\ bLastEval' = "switched" =>
                /\ bIsGlitching'
                /\ GlitchExpiries(bTimers) = {}
                /\ bLastSwitchAt # -1 => bNow - bLastSwitchAt >= 2000
          /\ Cardinality(GlitchExpiries(bTimers')) < Cardinality(GlitchExpiries(bTimers)) =>
                /\ bIsGlitching
                /\ ~bIsGlitching'
                /\ bNow - bLastSwitchAt >= 400]_vars
    /\ ((bIsGlitching /\ bNow + 2500 <= EpochNow + BrainHorizon) ~> ~bIsGlitching)

\* The expiry timer of a second switch has fired and cleared the flag.
C29_Witness ==
    /\ ~bIsGlitching
    /\ bLastSwitchCause # "none"
    /\ bLastEval = "none"
    /\ bNow - bLastSwitchAt >= 400
    /\ \A i \in 1..Len(bTimers) : bTimers[i].kind # "glitchOff"

(***************************************************************************)
(* FeatureExtractor: the useAudioFeatures analysis tick. RMS, spectrum and *)
(* band values are hundredths of full scale; the threshold is in tenths.   *)
(***************************************************************************)
beatThreshold10 == 14
beatCooldownMs == 120
HistorySize == 43
smoothingAlpha100 == 15

\* RMS values a tick can measure: a steady level and a spike.
FeatEnergies == {10, 30}

\* Time from one tick to the next: the 33 ms interval, and late timer runs.
FeatSteps == {33, 87}

\* The audio context's sample rate and the analyser's fftSize.
FeatAnalysers == {[sampleRate |-> 44100, fftSize |-> 256]}

\* getFloatFrequencyData results, in dB: silence, and a low-heavy spectrum.
FeatSpectra(bins) ==
    { [k \in 1..bins |-> -100], [k \in 1..bins |-> IF k <= 16 THEN -20 ELSE -60] }

\* fftNorm[i] = Math.max(0, (freqData[i] + 100) / 100)
FftNorm(freqData) == [k \in 1..Len(freqData) |-> Max(0, freqData[k] + 100)]

\* Math.floor(hz / binHz), binHz = sampleRate / fftSize
BinOf(hz, analyser) == (hz * analyser.fftSize) \div analyser.sampleRate

RECURSIVE SumRange(_, _, _)
SumRange(arr, from, to) ==
    IF from >= to THEN 0
    ELSE IF to = from + 1 THEN arr[to]
    ELSE LET half == (from + to) \div 2
         IN  SumRange(arr, from, half) + SumRange(arr, half, to)

\* bandRMS(start, end): the sum over [start, min(end, length)) over (end - start)
BandRMS(fftNorm, start, end) ==
    IF end - start = 0 THEN NaN
    ELSE Fin(SumRange(fftNorm, start, Min(end, Len(fftNorm))) \div (end - start))

\* previous + (instant - previous) * smoothingAlpha
Smooth(previous, instant) ==
    IF previous.nan \/ instant.nan THEN NaN
    ELSE Fin(previous.v + ((instant.v - previous.v) * smoothingAlpha100) \div 100)

Band(previous, instant) == [instant |-> instant, smoothed |-> Smooth(previous.smoothed, instant)]

NextBands(bands, fftNorm, analyser) ==
    LET lowBin == BinOf(20, analyser)
        lowEnd == BinOf(160, analyser)
        midEnd == BinOf(2000, analyser)
        highEnd == BinOf(12000, analyser)
    IN  [low |-> Band(bands.low, BandRMS(fftNorm, lowBin, lowEnd)),
         mid |-> Band(bands.mid, BandRMS(fftNorm, lowEnd, midEnd)),
         high |-> Band(bands.high, BandRMS(fftNorm, midEnd, highEnd))]

InitialBands ==
    [low |-> [instant |-> Fin(0), smoothed |-> Fin(0)],
     mid |-> [instant |-> Fin(0), smoothed |-> Fin(0)],
     high |-> [instant |-> Fin(0), smoothed |-> Fin(0)]]

\* new Float32Array(n) of plain numbers
ZeroBuffer0(n) == [k \in 1..n |-> 0]

RECURSIVE SeqSum(_)
SeqSum(seq) == IF seq = <<>> THEN 0 ELSE Head(seq) + SeqSum(Tail(seq))

\* history.push(energy); if (history.length > 43) history.shift()
PushHistory(history, energy) ==
    LET pushed == Append(history, energy)
    IN  IF Len(pushed) > HistorySize THEN Tail(pushed) ELSE pushed

\* energy > mean * beatThreshold, mean taken over the updated history
EnergySpike(energy, history) ==
    10 * energy * Len(history) > beatThreshold10 * SeqSum(history)

\* A cooldown test that lets exactly cooldownMs through.
CooldownOverInclusive(now, lastBeat) == now - lastBeat >= beatCooldownMs

\* now - lastBeatRef.current > beatCooldownMs
CooldownOver(now, lastBeat) == now - lastBeat > beatCooldownMs

\* Math.min(1, energy / (mean * beatThreshold) - 1), in hundredths
BeatConfidence(energy, history) ==
    Min(100, (1000 * energy * Len(history)) \div (beatThreshold10 * SeqSum(history)) - 100)

InitFeat ==
    /\ ParkOthersOfFeat
    /\ fNow = EpochNow
    /\ fAnalyser \in FeatAnalysers
    \* freshly mounted, or after HistorySize ticks of a steady level over a
    \* silent spectrum
    /\ \/ /\ fHistory = <<>>
          /\ fBands = InitialBands
       \/ /\ fHistory = [i \in 1..HistorySize |-> 10]
          /\ fBands = NextBands(InitialBands, ZeroBuffer0(fAnalyser.fftSize \div 2), fAnalyser)
    /\ fFft = ZeroBuffer0(fAnalyser.fftSize \div 2)
    /\ fLastBeatRef = 0
    /\ fBeat = [isBeat |-> FALSE, confidence |-> 0, lastBeatTime |-> 0]
    /\ fRmsGlobal = 0
    /\ fEnergy = 0
    /\ fElapsed = 0
    /\ fTicks = 0

\* One run of the setInterval callback, dt ms after the previous one.
FeatTick ==
    \E dt \in FeatSteps, energy \in FeatEnergies,
       freqData \in FeatSpectra(fAnalyser.fftSize \div 2) :
        LET now == fNow + dt
            fftNorm == FftNorm(freqData)
            history == PushHistory(fHistory, energy)
            isBeat == EnergySpike(energy, history) /\ CooldownOver(now, fLastBeatRef)
            lastBeat == IF isBeat THEN now ELSE fLastBeatRef
        IN  /\ fTicks < MaxTicks
            /\ fNow' = now
            /\ fFft' = fftNorm
            /\ fRmsGlobal' = Min(100, energy * 2)
            /\ fBands' = NextBands(fBands, fftNorm, fAnalyser)
            /\ fHistory' = history
            /\ fLastBeatRef' = lastBeat
            /\ fBeat' = [isBeat |-> isBeat,
                         confidence |-> IF isBeat THEN BeatConfidence(energy, history) ELSE 0,
                         lastBeatTime |-> lastBeat]
            /\ fEnergy' = energy
            /\ fElapsed' = now - fLastBeatRef
            /\ fTicks' = fTicks + 1
            /\ UNCHANGED fAnalyser
            /\ UNCHANGED OthersOfFeat

NextFeat == FeatTick

SpecFeat == InitFeat /\ [][NextFeat]_vars

(***************************************************************************)
(* C4 as stated: on every analysis tick a beat fires exactly when the RMS  *)
(* is greater than mean(history) * 1.4 and at least 120 ms have elapsed    *)
(* since the last beat.                                                    *)
(***************************************************************************)
C4_BeatIffAtLeastCooldown ==
    fTicks > 0 =>
        (fBeat.isBeat <=>
            (10 * fEnergy * Len(fHistory) > 14 * SeqSum(fHistory) /\ fElapsed >= 120))

(***************************************************************************)
(* C4 amended: on every analysis tick a beat fires exactly when the RMS is *)
(* greater than mean(history) * 1.4 and more than 120 ms have elapsed      *)
(* since the last beat; so two beats are never 120 ms or less apart, and   *)
(* the published lastBeatTime changes only on a tick where a beat fires,   *)
(* to that tick's time.                                                    *)
(***************************************************************************)
C4_BeatIffMoreThanCooldown ==
    [][fTicks' # fTicks =>
          /\ fBeat'.isBeat <=>
                (10 * fEnergy' * Len(fHistory') > 14 * SeqSum(fHistory')
                 /\ fNow' - fLastBeatRef > 120)
          /\ (fBeat'.isBeat /\ fLastBeatRef # 0) => fNow' - fLastBeatRef > 120
          /\ (fBeat'.lastBeatTime # fBeat.lastBeatTime)
                => (fBeat'.isBeat /\ fBeat'.lastBeatTime = fNow')
          /\ fBeat'.lastBeatTime = fLastBeatRef']_vars

\* A spike exactly 120 ms after the previous beat: no beat fires.
C4_Witness ==
    /\ fLastBeatRef # 0
    /\ fElapsed = 120
    /\ 10 * fEnergy * Len(fHistory) > 14 * SeqSum(fHistory)
    /\ ~fBeat.isBeat
    /\ fBeat.lastBeatTime = fLastBeatRef
(***************************************************************************)
(* Channel-pair consumers. R3FCanvas chooses xySignalA and xySignalB, each *)
(* by its own test; XYPlot (XY mode) and WaveformTrail (XY rendering) read *)
(* the pair by index. Only lengths and indices are kept: a read at an      *)
(* index outside a Float32Array yields undefined.                          *)
(***************************************************************************)
\* Lengths of a generator's pair (gen), of the stereo window's left and right
\* (stereo), of the mono live window (live) and of the two test signals (test).
XYSources == [gen : 1..MaxLen, stereo : 1..MaxLen, live : 1..MaxLen, test : 1..MaxLen]

\* signalToDraw, for the figure types without a generator
SignalToDraw(src, liveNonZero) == IF liveNonZero THEN src.live ELSE src.test

XySignalA(src, figure, isStereo, leftNonZero, liveNonZero) ==
    IF figure = "generator" THEN src.gen
    ELSE IF isStereo /\ leftNonZero THEN src.stereo
    ELSE SignalToDraw(src, liveNonZero)

XySignalB(src, figure, isStereo, rightNonZero) ==
    IF figure = "generator" THEN src.gen
    ELSE IF isStereo /\ rightNonZero THEN src.stereo
    ELSE src.test

\* Math.floor(x) % len, then + len when negative (JavaScript's % keeps the sign)
SafeIdx(x, len) == x % len

\* Indices XYPlot reads on signalB in one frame: the beam, then the trail.
XYPlotReads(index, trailLength, lenA, lenB) ==
    { SafeIdx(index - i, lenA) : i \in 0..(trailLength - 1) }
        \cup { SafeIdx(index, lenA) }

\* Indices WaveformTrail reads on dataB for one stored frame.
WaveformTrailReads(lenA, lenB) == 0..(Min(lenA, lenB) - 1)

InitXY ==
    /\ ParkOthersOfXY
    /\ xSrc \in XYSources
    /\ xLenA = xSrc.test
    /\ xLenB = xSrc.test
    /\ xIndex = 0
    /\ xReadsB = {}
    /\ xTrailB = {}
    /\ xFrames = 0

\* R3FCanvas renders and hands a pair to the consumers.
XYSelect ==
    \E figure \in {"generator", "default"}, isStereo \in BOOLEAN,
       leftNonZero \in BOOLEAN, rightNonZero \in BOOLEAN, liveNonZero \in BOOLEAN :
        /\ xLenA' = XySignalA(xSrc, figure, isStereo, leftNonZero, liveNonZero)
        /\ xLenB' = XySignalB(xSrc, figure, isStereo, rightNonZero)
        /\ <<xLenA', xLenB'>> # <<xLenA, xLenB>>
        /\ xReadsB' = {}
        /\ xTrailB' = {}
        /\ UNCHANGED <<xSrc, xIndex, xFrames>>
        /\ UNCHANGED OthersOfXY

\* One useFrame callback of XYPlot in XY mode.
XYPlotFrame ==
    \E advance \in 0..2, trailLength \in 0..MaxTrail :
        /\ xFrames < MaxXYFrames
        /\ xLenA > 0
        /\ xIndex' = xIndex + advance
        /\ xReadsB' = XYPlotReads(xIndex', trailLength, xLenA, xLenB)
        /\ xFrames' = xFrames + 1
        /\ UNCHANGED <<xSrc, xLenA, xLenB, xTrailB>>
        /\ UNCHANGED OthersOfXY

\* One render of WaveformTrail in XY mode over the pair.
WaveformTrailRender ==
    /\ xTrailB' = WaveformTrailReads(xLenA, xLenB)
    /\ xTrailB' # xTrailB
    /\ UNCHANGED <<xSrc, xLenA, xLenB, xIndex, xReadsB, xFrames>>
    /\ UNCHANGED OthersOfXY

NextXY == XYSelect \/ XYPlotFrame \/ WaveformTrailRender

SpecXY == InitXY /\ [][NextXY]_vars

(***************************************************************************)
(* C5: every index at which a consumer reads channel B lies below the      *)
(* length of B (XYPlot's beam and trail, WaveformTrail's XY rendering),    *)
(* whatever the two lengths are.                                           *)
(***************************************************************************)
C5_BReadsWithinLength ==
    /\ \A i \in xReadsB : i < xLenB
    /\ \A i \in xTrailB : i < Min(xLenA, xLenB)

\* XYPlot has read a trail from a pair whose B is the shorter buffer.
C5_Witness ==
    /\ xFrames > 0
    /\ xLenB < xLenA
    /\ Cardinality(xReadsB) >= 2
(***************************************************************************)
(* Shape generators: what one animate() frame of usePlanetSignal,          *)
(* useChaosSignal, useBrainSignal, useEyeSignal and useTextSignal writes.  *)
(* Coordinates are fixed-point, 1/1000; scales are 1/10000. A Float32Array *)
(* entry is a Fin(v) or NaN.                                               *)
(***************************************************************************)
\* new Float32Array(n): n zeros
ZeroBuffer(n) == [k \in 1..n |-> Fin(0)]

\* a / b for b # 0 of either sign
Quot(a, b) == IF b > 0 THEN a \div b ELSE (-a) \div (-b)

ShapePoints == {3, 5, 13}

\* Props of a generator: polygon layouts with 0, 2 or 3 clones, and grids.
ShapeConfigs ==
    [pointsCount : ShapePoints, cloneCount : {0, 2, 3}, layoutMode : {"polygon"},
     gridRows : {2}, gridCols : {3}]
    \cup
    [pointsCount : ShapePoints, cloneCount : {1}, layoutMode : {"grid"},
     gridRows : {1, 2}, gridCols : {2, 5}]

\* Props a re-render changes to.
ShapeChanges ==
    { [pointsCount |-> 13, cloneCount |-> 1, layoutMode |-> "grid", gridRows |-> 1, gridCols |-> 5],
      [pointsCount |-> 5, cloneCount |-> 2, layoutMode |-> "polygon", gridRows |-> 2, gridCols |-> 3] }

ShapeSetups ==
    { [kind |-> "planet", attractorType |-> "lorenz"],
      [kind |-> "chaos", attractorType |-> "lorenz"],
      [kind |-> "chaos", attractorType |-> "rossler"],
      [kind |-> "chaos", attractorType |-> "aizawa"],
      [kind |-> "brain", attractorType |-> "lorenz"],
      [kind |-> "eye", attractorType |-> "lorenz"],
      [kind |-> "text", attractorType |-> "lorenz"] }

WithAttractor(cfg, attractorType) ==
    [pointsCount |-> cfg.pointsCount, cloneCount |-> cfg.cloneCount,
     layoutMode |-> cfg.layoutMode, gridRows |-> cfg.gridRows,
     gridCols |-> cfg.gridCols, attractorType |-> attractorType]

\* The text generator has no grid layout.
IsGrid(kind, p) == kind # "text" /\ p.layoutMode = "grid"

Passes(kind, p) ==
    IF IsGrid(kind, p) THEN p.gridRows * p.gridCols ELSE Max(1, p.cloneCount)

PointsPerPass(kind, p) == p.pointsCount \div Passes(kind, p)

\* useRef(...) of scaleRef
InitialScale(kind) ==
    IF kind \in {"planet", "chaos"} THEN 12000
    ELSE IF kind = "text" THEN 4000 ELSE 10000

SingleScale(kind) ==
    IF kind = "brain" THEN 18000 ELSE IF kind = "eye" THEN 15000 ELSE 12000

TargetScale(kind, p) ==
    LET base == IF IsGrid(kind, p) THEN 3500
                ELSE IF Passes(kind, p) > 1 THEN 4500 ELSE SingleScale(kind)
    IN  IF kind = "text" THEN (IF Passes(kind, p) > 1 THEN 800 ELSE 1600)
        ELSE IF kind = "chaos"
        THEN (IF p.attractorType = "aizawa" THEN (base * 25) \div 10
              ELSE (base * 3) \div 100)
        ELSE base

\* current += (target - current) * 0.05
Lerp(current, target) == current + ((target - current) * 5) \div 100

\* (cos, sin) of pass / passes * 2 pi + pi / 2, in 1/1000, for up to 3 passes
PolygonDir(pass, passes) ==
    IF passes = 2
    THEN (IF pass = 0 THEN [x |-> 0, y |-> 1000] ELSE [x |-> 0, y |-> -1000])
    ELSE IF pass = 0 THEN [x |-> 0, y |-> 1000]
    ELSE IF pass = 1 THEN [x |-> -866, y |-> -500]
    ELSE [x |-> 866, y |-> -500]

TargetOffset(kind, p, pass) ==
    IF IsGrid(kind, p)
    THEN [x |-> (pass % p.gridCols) * 2000 - ((p.gridCols - 1) * 2000) \div 2,
          y |-> -((pass \div p.gridCols) * 2000 - ((p.gridRows - 1) * 2000) \div 2)]
    ELSE IF Passes(kind, p) > 1
    THEN LET radius == IF kind = "text" THEN 1600 ELSE 1300
             dir == PolygonDir(pass, Passes(kind, p))
         IN  [x |-> (radius * dir.x) \div 1000, y |-> (radius * dir.y) \div 1000]
    ELSE [x |-> 0, y |-> 0]

\* while (offsetsRef.current.length < passes) push({x: 0, y: 0})
GrowOffsets(offsets, passes) ==
    IF Len(offsets) >= passes THEN offsets
    ELSE offsets \o [j \in 1..(passes - Len(offsets)) |-> [x |-> 0, y |-> 0]]

\* The offsets after the first `done` passes of a frame lerped theirs.
LerpOffsets(offsets, kind, p, done) ==
    [j \in 1..Len(offsets) |->
        IF j <= done
        THEN [x |-> Lerp(offsets[j].x, TargetOffset(kind, p, j - 1).x),
              y |-> Lerp(offsets[j].y, TargetOffset(kind, p, j - 1).y)]
        ELSE offsets[j]]
\* Rotated spiral points of the planet: on the sphere of radius 0.6.
PlanetPoses ==
    << [x |-> 600, y |-> 0, z |-> 0], [x |-> 0, y |-> 600, z |-> 0],
       [x |-> 424, y |-> 0, z |-> -424], [x |-> -424, y |-> -424, z |-> 0] >>

\* Centred and rotated points of the Lorenz and Roessler orbits (tens of units).
ChaosLargePoses ==
    << [x |-> 100, y |-> 0, z |-> -25000], [x |-> 15000, y |-> 20000, z |-> 10000],
       [x |-> -12000, y |-> 3000, z |-> -4000], [x |-> 2000, y |-> -9000, z |-> -6500] >>

\* Rotated points of the Aizawa orbit (about one unit).
ChaosSmallPoses ==
    << [x |-> 100, y |-> 0, z |-> 0], [x |-> 1000, y |-> 500, z |-> 1500],
       [x |-> -1200, y |-> 800, z |-> -500], [x |-> 0, y |-> -1400, z |-> 300] >>

\* Rotated points of the deformed brain sphere.
BrainPoses ==
    << [x |-> 1150, y |-> 0, z |-> 0], [x |-> -600, y |-> 500, z |-> 1200],
       [x |-> 0, y |-> -700, z |-> -1300], [x |-> -1150, y |-> 300, z |-> 200] >>

\* Sclera points (unit sphere) and pupil points (sphere of radius 1.02, front).
ScleraPoses ==
    << [x |-> 1000, y |-> 0, z |-> 0], [x |-> 0, y |-> 1000, z |-> 0],
       [x |-> 0, y |-> 0, z |-> 1000], [x |-> 0, y |-> -707, z |-> -707] >>

PupilPoses ==
    << [x |-> 0, y |-> 0, z |-> 1020], [x |-> 300, y |-> 200, z |-> 954],
       [x |-> -300, y |-> 200, z |-> 954], [x |-> 0, y |-> -400, z |-> 938] >>

\* Rotation states told apart per frame.
NumPoses == Len(PlanetPoses)

\* allPoints of the text outline, centred: a closed box path.
TextPath ==
    << [x |-> -1200, y |-> -350], [x |-> -1200, y |-> 350], [x |-> 1200, y |-> 350],
       [x |-> 1200, y |-> -350], [x |-> -1200, y |-> -350] >>

ScleraCount(ppp) == (ppp * 6) \div 10
PupilCount(ppp) == (ppp - ScleraCount(ppp)) \div 3

\* The frame throws a TypeError in its first pass: the eye indexes
\* pupilPositions with floor(0 / 0), the text indexes allPoints with 0 / 0.
Throws(kind, ppp) ==
    \/ kind = "eye" /\ ppp >= 1 /\ PupilCount(ppp) = 0
    \/ kind = "text" /\ ppp = 1

Pick(poses, n) == poses[(n % Len(poses)) + 1]

\* Point i of a pass of the text: the outline resampled to ppp points.
TextPoint(i, ppp) ==
    LET num == i * (Len(TextPath) - 1)
        den == ppp - 1
        idx1 == num \div den
        idx2 == Min(idx1 + 1, Len(TextPath) - 1)
        p1 == TextPath[idx1 + 1]
        p2 == TextPath[idx2 + 1]
    IN  [nan |-> FALSE,
         x |-> p1.x + ((p2.x - p1.x) * (num % den)) \div den,
         y |-> p1.y + ((p2.y - p1.y) * (num % den)) \div den,
         z |-> 0]

\* The 3-D point i of pass `pass`, after rotation, before the layout offset.
RawPoint(kind, p, pose, pass, i, ppp) ==
    LET at(poses) == LET v == Pick(poses, pose + pass + i)
                     IN  [nan |-> FALSE, x |-> v.x, y |-> v.y, z |-> v.z]
    IN  IF kind = "planet"
        THEN (IF ppp = 1 THEN [nan |-> TRUE, x |-> 0, y |-> 0, z |-> 0]
              ELSE at(PlanetPoses))
        ELSE IF kind = "chaos"
        THEN (IF p.attractorType = "aizawa" THEN at(ChaosSmallPoses)
              ELSE at(ChaosLargePoses))
        ELSE IF kind = "brain" THEN at(BrainPoses)
        ELSE IF kind = "eye"
        THEN (IF i < ScleraCount(ppp) THEN at(ScleraPoses) ELSE at(PupilPoses))
        ELSE TextPoint(i, ppp)

\* Math.max(-1, Math.min(1, e)); NaN stays NaN
Clamp(e) == IF e.nan THEN e ELSE Fin(Max(-1000, Min(1000, e.v)))

\* The clamp of the final coordinate, in the generators that have one.
ClampOf(kind, e) == IF kind \in {"chaos", "brain", "eye"} THEN Clamp(e) ELSE e

Dist(kind) == IF kind = "planet" THEN 1800 ELSE 5000

\* The projected coordinate: (c / (z + dist)) * scale, or c * scale for text.
Project(kind, v, c, scale) ==
    IF v.nan THEN NaN
    ELSE IF kind = "text" THEN Fin((c * scale) \div 10000)
    ELSE ClampOf(kind, Fin((Quot(c * 1000, v.z + Dist(kind)) * scale) \div 10000))

\* The generators with the "fill remaining" loop after the passes.
HasFill(kind) == kind # "text"

\* One channel of a frame: signalA takes x of each point, signalB takes y.
FrameBuffer(kind, p, pose, scale, offsets, xAxis) ==
    LET ppp == PointsPerPass(kind, p)
        written == Passes(kind, p) * ppp
        entry(k) ==
            LET pass == (k - 1) \div ppp
                v == RawPoint(kind, p, pose, pass, (k - 1) % ppp, ppp)
                off == offsets[pass + 1]
            IN  IF xAxis THEN Project(kind, v, v.x + off.x, scale)
                ELSE Project(kind, v, v.y + off.y, scale)
    IN  [k \in 1..p.pointsCount |->
            IF k <= written THEN entry(k)
            ELSE IF ~HasFill(kind) THEN Fin(0)
            ELSE IF written = 0 THEN NaN
            ELSE entry(written)]

InitShape ==
    /\ ParkOthersOfShape
    /\ \E setup \in ShapeSetups, cfg \in ShapeConfigs :
          /\ sKind = setup.kind
          /\ sParams = WithAttractor(cfg, setup.attractorType)
    /\ sScale = InitialScale(sKind)
    /\ sOffsets = <<>>
    /\ sA = ZeroBuffer(sParams.pointsCount)
    /\ sB = ZeroBuffer(sParams.pointsCount)
    /\ sWritten = 0
    /\ sLast = "init"
    /\ sFrames = 0
    /\ sChanges = 0

\* One animate() callback. `pose` stands for the rotation (and the random
\* draws of the eye) of this frame.
ShapeFrame ==
    \E pose \in 0..(NumPoses - 1) :
        LET passes == Passes(sKind, sParams)
            ppp == PointsPerPass(sKind, sParams)
            scale == Lerp(sScale, TargetScale(sKind, sParams))
            grown == GrowOffsets(sOffsets, passes)
            throws == Throws(sKind, ppp)
            offsets == LerpOffsets(grown, sKind, sParams, IF throws THEN 1 ELSE passes)
        IN  /\ sLast # "threw"
            /\ sFrames < MaxShapeFrames
            /\ sScale' = scale
            /\ sOffsets' = offsets
            /\ sFrames' = sFrames + 1
            /\ IF throws
               THEN /\ sLast' = "threw"
                    /\ UNCHANGED <<sA, sB, sWritten>>
               ELSE /\ sLast' = "frame"
                    /\ sA' = FrameBuffer(sKind, sParams, pose, scale, offsets, TRUE)
                    /\ sB' = FrameBuffer(sKind, sParams, pose, scale, offsets, FALSE)
                    /\ sWritten' = passes * ppp
            /\ UNCHANGED <<sKind, sParams, sChanges>>
            /\ UNCHANGED OthersOfShape

\* A re-render with other props: the effect is re-run, the refs and the
\* published pair stay.
ShapeParamChange ==
    \E cfg \in ShapeChanges :
        /\ sChanges < MaxChanges
        /\ sFrames < MaxShapeFrames
        /\ sParams' = WithAttractor(cfg, sParams.attractorType)
        /\ sParams' # sParams
        /\ sLast' = "change"
        /\ sChanges' = sChanges + 1
        /\ UNCHANGED <<sKind, sScale, sOffsets, sA, sB, sWritten, sFrames>>
        /\ UNCHANGED OthersOfShape

NextShape == ShapeFrame \/ ShapeParamChange

SpecShape == InitShape /\ [][NextShape]_vars
(***************************************************************************)
(* C6: after every frame of the Planet, Chaos, Brain and Eye generators in *)
(* grid layout r x c, the passes have written floor(P / (r c)) * (r c)     *)
(* points, every later index repeats the last written value, and every     *)
(* entry of both channels is finite, also when P < r c.                    *)
(***************************************************************************)
C6_GridFillFinite ==
    (sLast = "frame" /\ sKind \in {"planet", "chaos", "brain", "eye"}
     /\ sParams.layoutMode = "grid")
    => LET rc == sParams.gridRows * sParams.gridCols
           total == (sParams.pointsCount \div rc) * rc
       IN  /\ sWritten = total
           /\ \A k \in (total + 1)..sParams.pointsCount :
                 total >= 1 => (sA[k] = sA[total] /\ sB[k] = sB[total])
           /\ \A k \in 1..sParams.pointsCount : ~sA[k].nan /\ ~sB[k].nan

\* A grid frame with fewer points than instances: nothing written, all NaN.
C6_Witness ==
    /\ sLast = "frame"
    /\ sKind = "chaos"
    /\ sParams.layoutMode = "grid"
    /\ sParams.pointsCount < sParams.gridRows * sParams.gridCols
    /\ sWritten = 0
    /\ \A k \in 1..sParams.pointsCount : sA[k].nan /\ sB[k].nan

(***************************************************************************)
(* C7: after every frame of the Text generator, each index at or beyond    *)
(* passes * pointsPerPass holds the last written point in both channels.   *)
(***************************************************************************)
C7_TextRepeatFill ==
    (sLast = "frame" /\ sKind = "text")
    => \A k \in (sWritten + 1)..sParams.pointsCount :
          sA[k] = sA[sWritten] /\ sB[k] = sB[sWritten]

\* A text frame with leftover indices: they hold zero, not the last point.
C7_Witness ==
    /\ sLast = "frame"
    /\ sKind = "text"
    /\ sWritten >= 1
    /\ sWritten < sParams.pointsCount
    /\ sA[sParams.pointsCount] = Fin(0)
    /\ sB[sParams.pointsCount] = Fin(0)
    /\ sA[sWritten] # Fin(0)

(***************************************************************************)
(* C8: every coordinate published by the Planet and Chaos generators lies  *)
(* in [-1, 1], in every frame, the frames of the scale and offset lerp     *)
(* included.                                                               *)
(***************************************************************************)
C8_PlanetChaosInRange ==
    sKind \in {"planet", "chaos"}
    => \A k \in 1..Len(sA) :
          /\ ~sA[k].nan /\ sA[k].v >= -1000 /\ sA[k].v <= 1000
          /\ ~sB[k].nan /\ sB[k].v >= -1000 /\ sB[k].v <= 1000

\* A planet frame publishing a finite coordinate above 1.
C8_Witness ==
    /\ sLast = "frame"
    /\ sKind = "planet"
    /\ \E k \in 1..Len(sA) : ~sA[k].nan /\ sA[k].v > 1000
(***************************************************************************)
(* WindowExtractor: the setInterval tick of useAudioWindow. Samples and    *)
(* the trigger level are in 1/1000 of full scale, the scale in 1/1000.     *)
(* JavaScript indices are 0-based; sequences here are 1-based.             *)
(***************************************************************************)
targetPeak1000 == 900
scaleAlpha10 == 2

WinSamples == {-500, 0, 500}

\* The options of a mounted hook; fftSize is the analyser's buffer length.
WinConfigs ==
    [windowSize : 1..MaxWindow, fftSize : {2, 4}, triggerEnabled : BOOLEAN,
     triggerLevel : {0}, triggerEdge : {"rising", "falling"}, autoScale : BOOLEAN]

\* typedArray.subarray(begin, end): the bounds are cut to the array
Subarray(arr, begin, end) ==
    SubSeq(arr, Min(begin, Len(arr)) + 1, Min(end, Len(arr)))

\* target.set(source, offset)
SetAt(target, source, offset) ==
    [k \in 1..Len(target) |->
        IF k > offset /\ k <= offset + Len(source) THEN source[k - offset]
        ELSE target[k]]

\* temp.subarray(sliceStart, sliceStart + windowSize)
LatestSlice(temp, windowSize) ==
    LET sliceStart == Max(0, Len(temp) - windowSize)
    IN  Subarray(temp, sliceStart, sliceStart + windowSize)

\* slice[i - 1], slice[i] cross the level in the direction of `edge`
IsEdge(slice, i, level, edge) ==
    IF edge = "rising"
    THEN slice[i] < level /\ slice[i + 1] >= level
    ELSE slice[i] > level /\ slice[i + 1] <= level

\* The first i >= 1 with an edge between i - 1 and i, or 0.
FindTrigger(slice, level, edge) ==
    LET found == {i \in 1..(Len(slice) - 1) : IsEdge(slice, i, level, edge)}
    IN  IF found = {} THEN 0 ELSE CHOOSE i \in found : \A j \in found : i <= j

\* An alignment that never rotates.
AlignedAsIs(slice, idx, windowSize) == slice

\* aligned, for trigger index idx
Aligned(slice, idx, windowSize) ==
    IF idx = 0 THEN slice
    ELSE LET firstLen == Len(slice) - idx
             head == SetAt([k \in 1..windowSize |-> 0], Subarray(slice, idx, Len(slice)), 0)
         IN  IF firstLen < windowSize
             THEN SetAt(head, Subarray(slice, 0, windowSize - firstLen), firstLen)
             ELSE head

RECURSIVE Peak(_)
Peak(arr) ==
    IF arr = <<>> THEN 0
    ELSE Max(IF Head(arr) < 0 THEN -Head(arr) ELSE Head(arr), Peak(Tail(arr)))

\* scaleRef.current + (target - scaleRef.current) * scaleAlpha
NextScale(scale, aligned) ==
    LET peak == Peak(aligned)
        target == IF peak = 0 THEN 1000 ELSE (targetPeak1000 * 1000) \div peak
    IN  scale + ((target - scale) * scaleAlpha10) \div 10

InitWin ==
    /\ ParkOthersOfWin
    /\ wCfg \in WinConfigs
    /\ wData = [k \in 1..wCfg.windowSize |-> 0]
    /\ wWindow = [k \in 1..wCfg.windowSize |-> 0]
    /\ wTriggerIndex = 0
    /\ wScale = 1000
    /\ wSlice = <<>>
    /\ wTicks = 0

\* One run of the interval callback on the analyser's buffer `temp`.
WinTick ==
    \E temp \in [1..wCfg.fftSize -> WinSamples] :
        LET slice == LatestSlice(temp, wCfg.windowSize)
            idx == IF wCfg.triggerEnabled
                   THEN FindTrigger(slice, wCfg.triggerLevel, wCfg.triggerEdge)
                   ELSE 0
            aligned == Aligned(slice, idx, wCfg.windowSize)
        IN  /\ wTicks < MaxWinTicks
            /\ wScale' = IF wCfg.autoScale THEN NextScale(wScale, aligned) ELSE wScale
            /\ wData' = SetAt(wData, aligned, 0)
            /\ wTriggerIndex' = idx
            /\ wWindow' = wData'
            /\ wSlice' = slice
            /\ wTicks' = wTicks + 1
            /\ UNCHANGED wCfg
            /\ UNCHANGED OthersOfWin

NextWin == WinTick

SpecWin == InitWin /\ [][NextWin]_vars

(***************************************************************************)
(* C9: with trigger alignment enabled and windowSize <= fftSize, when the  *)
(* slice has an edge the published trigger index is the first one, idx,    *)
(* and the published window is the slice left-rotated by idx:              *)
(* window[k] = slice[(k + idx) mod windowSize]; when the slice has no edge *)
(* the published window is the slice itself.                               *)
(***************************************************************************)
C9_TriggerRotation ==
    (wTicks > 0 /\ wCfg.triggerEnabled /\ wCfg.windowSize <= wCfg.fftSize)
    => LET n == wCfg.windowSize
           edges == {i \in 1..(n - 1) :
                        IF wCfg.triggerEdge = "rising"
                        THEN wSlice[i] < wCfg.triggerLevel /\ wSlice[i + 1] >= wCfg.triggerLevel
                        ELSE wSlice[i] > wCfg.triggerLevel /\ wSlice[i + 1] <= wCfg.triggerLevel}
       IN  /\ Len(wSlice) = n
           /\ Len(wWindow) = n
           /\ IF edges = {}
              THEN wTriggerIndex = 0 /\ wWindow = wSlice
              ELSE /\ wTriggerIndex \in edges
                   /\ \A j \in edges : wTriggerIndex <= j
                   /\ \A k \in 0..(n - 1) :
                         wWindow[k + 1] = wSlice[((k + wTriggerIndex) % n) + 1]

\* A tick that found an edge and published a window that differs from the slice.
C9_Witness ==
    /\ wTicks > 0
    /\ wCfg.triggerEnabled
    /\ wCfg.windowSize <= wCfg.fftSize
    /\ wCfg.windowSize >= 3
    /\ wTriggerIndex >= 2
    /\ wWindow # wSlice

(***************************************************************************)
(* C10: when windowSize > fftSize the published window holds only the      *)
(* fftSize available samples: it is the slice, shorter than windowSize,    *)
(* with no padding entries.                                                *)
(***************************************************************************)
C10_ShortWindowUnpadded ==
    (wTicks > 0 /\ wCfg.windowSize > wCfg.fftSize)
    => (Len(wWindow) = wCfg.fftSize /\ Len(wWindow) < wCfg.windowSize)

\* A tick with windowSize > fftSize publishing windowSize entries, the tail zero.
C10_Witness ==
    /\ wTicks > 0
    /\ wCfg.windowSize > wCfg.fftSize
    /\ Len(wSlice) = wCfg.fftSize
    /\ Len(wWindow) = wCfg.windowSize
    /\ wWindow[1] # 0
    /\ wWindow[wCfg.windowSize] = 0

(***************************************************************************)
(* C24: every published window consists only of the samples read in that   *)
(* same tick, in original or rotated order: it is a rotation of the tick's *)
(* slice, so nothing an earlier tick read appears in it.                   *)
(***************************************************************************)
C24_WindowIsRotationOfThisTicksSlice ==
    wTicks > 0
      => /\ Len(wWindow) = Len(wSlice)
         /\ \E r \in 0..(Len(wSlice) - 1) :
               \A k \in 0..(Len(wSlice) - 1) :
                  wWindow[k + 1] = wSlice[((k + r) % Len(wSlice)) + 1]

\* When the window fits the analyser buffer the claim does hold.
C24_FreshWhenWindowFits ==
    (wTicks > 0 /\ wCfg.windowSize <= wCfg.fftSize)
      => \E r \in 0..(Len(wSlice) - 1) :
            \A k \in 0..(Len(wSlice) - 1) :
               wWindow[k + 1] = wSlice[((k + r) % Len(wSlice)) + 1]

\* Second tick with windowSize > fftSize and no trigger hit: beyond the
\* fftSize samples just read, the window shows a value that this tick did
\* not read, left in dataRef by the rotation of the first tick.
C24_Witness ==
    /\ wTicks = 2
    /\ wCfg.triggerEnabled
    /\ wCfg.windowSize > wCfg.fftSize
    /\ wTriggerIndex = 0
    /\ \E k \in (wCfg.fftSize + 1)..Len(wWindow) :
          /\ wWindow[k] # 0
          /\ \A j \in 1..Len(wSlice) : wSlice[j] # wWindow[k]


(***************************************************************************)
(* SignalGenerator (signalGenerator.ts). Sample values and amplitudes are  *)
(* thousandths; duration is in eighths of a second; phase / (2 * PI) is in *)
(* eighths; a period is cut into SigTicks parts, so that every time the    *)
(* generators compare is a whole number of 1 / (SigTicks * frequency) s.   *)
(* Division rounds down to the next thousandth.                            *)
(***************************************************************************)
SigConfigs ==
    [frequency : {1, 3}, amplitude : {300, 800}, phase8 : {-3, 0, 2},
     offset : {0, 250}, sampleRate : {4, 6, 8}, duration8 : {3, 5}]

SigTypes == {"sine", "square", "sawtooth", "triangle", "noise"}

\* Values Math.random() returns, in thousandths: [0, 1).
RandomDraws == {0, 999}

\* a % b of JavaScript for b > 0: the remainder has the sign of a.
JsRem(a, b) == IF a >= 0 THEN a % b ELSE -((-a) % b)

\* A sample count that rounds up.
SamplesCeil(config) == (config.sampleRate * config.duration8 + 7) \div 8

\* Math.floor(config.sampleRate * config.duration)
Samples(config) == (config.sampleRate * config.duration8) \div 8

\* Math.sin at k / 24 of a turn, for any integer k.
SinTable ==
    <<0, 259, 500, 707, 866, 966, 1000, 966, 866, 707, 500, 259,
      0, -259, -500, -707, -866, -966, -1000, -966, -866, -707, -500, -259>>
\* Parts a waveform period is cut into: a multiple of every sample rate and of 8.
SigTicks == Len(SinTable)
Sin24(k) == SinTable[(k % SigTicks) + 1]

\* t = i / sampleRate, in 1 / (SigTicks * frequency) s.
SampleTime(config, i) == i * (SigTicks \div config.sampleRate) * config.frequency

\* (t + config.phase / (2 * Math.PI)) % period; the phase term is added as seconds.
PhaseTime(config, i) ==
    JsRem(SampleTime(config, i) + config.phase8 * (SigTicks \div 8) * config.frequency,
          SigTicks)

\* config.amplitude * x + config.offset, for x in thousandths
Scaled(config, x) == ((config.amplitude * x) \div 1000) + config.offset

generateSine(config) ==
    [k \in 1..Samples(config) |->
        Scaled(config, Sin24(SampleTime(config, k - 1) + config.phase8 * (SigTicks \div 8)))]

generateSquare(config) ==
    [k \in 1..Samples(config) |->
        Scaled(config, IF 2 * PhaseTime(config, k - 1) < SigTicks THEN 1000 ELSE -1000)]

generateSawtooth(config) ==
    [k \in 1..Samples(config) |->
        Scaled(config, (1000 * (2 * PhaseTime(config, k - 1) - SigTicks)) \div SigTicks)]

generateTriangle(config) ==
    [k \in 1..Samples(config) |->
        LET pt == PhaseTime(config, k - 1)
        IN  Scaled(config, IF 2 * pt < SigTicks
                           THEN (1000 * (4 * pt - SigTicks)) \div SigTicks
                           ELSE (1000 * (3 * SigTicks - 4 * pt)) \div SigTicks)]

\* random[k] is what the k-th call of Math.random() returns.
generateNoise(config, random) ==
    [k \in 1..Samples(config) |-> Scaled(config, random[k] * 2 - 1000)]

\* A dispatch that sends the sine type to the noise generator.
generateSineAsNoise(type, config, random) ==
    IF type = "square" THEN generateSquare(config)
    ELSE IF type = "sawtooth" THEN generateSawtooth(config)
    ELSE IF type = "triangle" THEN generateTriangle(config)
    ELSE generateNoise(config, random)

generate(type, config, random) ==
    IF type = "sine" THEN generateSine(config)
    ELSE IF type = "square" THEN generateSquare(config)
    ELSE IF type = "sawtooth" THEN generateSawtooth(config)
    ELSE IF type = "triangle" THEN generateTriangle(config)
    ELSE IF type = "noise" THEN generateNoise(config, random)
    ELSE generateSine(config)

\* The loop of findTriggerPoint from index i on (indices count from 0).
RECURSIVE ScanTrigger(_, _, _, _)
ScanTrigger(buffer, level, edge, i) ==
    IF i >= Len(buffer) THEN 0
    ELSE IF edge = "rising"
         THEN IF buffer[i] < level /\ buffer[i + 1] >= level THEN i
              ELSE ScanTrigger(buffer, level, edge, i + 1)
         ELSE IF buffer[i] > level /\ buffer[i + 1] <= level THEN i
              ELSE ScanTrigger(buffer, level, edge, i + 1)

\* A scan that starts one sample late.
findTriggerPointLate(buffer, level, edge) == ScanTrigger(buffer, level, edge, 2)

findTriggerPoint(buffer, level, edge) == ScanTrigger(buffer, level, edge, 1)

\* Buffers handed to findTriggerPoint directly: every sequence of these samples
\* up to MaxTrigLen.
TrigSamples == {-500, 0, 500}
TrigBuffers == UNION {[1..n -> TrigSamples] : n \in 0..MaxTrigLen}
TrigLevels == {-250, 0, 500}

InitSig ==
    /\ ParkOthersOfSig
    /\ qCall = [op |-> "none"]
    /\ qResult = <<>>
    /\ qPrev = [valid |-> FALSE]

\* generator.generate(type, config): a first call, or the last call once more.
SigGenerate ==
    \E type \in SigTypes, config \in SigConfigs :
        LET call == [op |-> "generate", type |-> type, config |-> config]
        IN  /\ qCall.op = "none" \/ qCall = call
            /\ \E random \in [1..Samples(config) -> RandomDraws] :
                   qResult' = generate(type, config, random)
            /\ qCall' = call
            /\ qPrev' = IF qCall = call THEN [valid |-> TRUE, buffer |-> qResult]
                         ELSE [valid |-> FALSE]
            /\ UNCHANGED OthersOfSig

\* generator.findTriggerPoint(buffer, level, edge), on a buffer of its own or
\* on the one generate has just returned.
SigFindTrigger ==
    \E buffer \in (IF qCall.op = "generate" THEN {qResult} ELSE TrigBuffers),
       level \in TrigLevels, edge \in {"rising", "falling"} :
        /\ qCall.op \in {"none", "generate"}
        /\ qCall' = [op |-> "findTriggerPoint", buffer |-> buffer,
                     level |-> level, edge |-> edge]
        /\ qResult' = findTriggerPoint(buffer, level, edge)
        /\ qPrev' = [valid |-> FALSE]
        /\ UNCHANGED OthersOfSig

NextSig == SigGenerate \/ SigFindTrigger

SpecSig == InitSig /\ [][NextSig]_vars

(***************************************************************************)
(* C11: findTriggerPoint returns the smallest index i >= 1 with            *)
(* buffer[i-1] < level <= buffer[i] (rising) or buffer[i-1] > level >=     *)
(* buffer[i] (falling), and 0 when there is none; so a single crossing at  *)
(* k > 0 gives k and a buffer that never crosses gives 0.                  *)
(***************************************************************************)
C11_FindTriggerPoint ==
    qCall.op = "findTriggerPoint" =>
        LET b == qCall.buffer
            crossings ==
                {i \in 1..(Len(b) - 1) :
                    IF qCall.edge = "rising"
                    THEN b[i] < qCall.level /\ qCall.level <= b[i + 1]
                    ELSE b[i] > qCall.level /\ qCall.level >= b[i + 1]}
        IN  /\ crossings = {} => qResult = 0
            /\ crossings # {} => (qResult \in crossings
                                  /\ \A j \in crossings : qResult <= j)
            /\ \A k \in crossings : crossings = {k} => qResult = k

\* A falling-edge call whose first crossing lands exactly on the level at index 2.
C11_Witness ==
    /\ qCall.op = "findTriggerPoint"
    /\ qCall.edge = "falling"
    /\ qCall.buffer = <<0, 500, 0, -500>>
    /\ qCall.level = 0
    /\ qResult = 2

(***************************************************************************)
(* C12 as stated: for every waveform type the buffer generate returns has  *)
(* round(sampleRate * duration) entries, also when that product is not a   *)
(* whole number.                                                           *)
(***************************************************************************)
C12_LengthIsRounded ==
    qCall.op = "generate" =>
        Len(qResult) =
            (2 * qCall.config.sampleRate * qCall.config.duration8 + 8) \div 16

(***************************************************************************)
(* C12 amended: for every waveform type the buffer generate returns has    *)
(* floor(sampleRate * duration) entries: the largest whole number that is  *)
(* not above the product.                                                  *)
(***************************************************************************)
C12_LengthIsFloor ==
    qCall.op = "generate" =>
        /\ 8 * Len(qResult) <= qCall.config.sampleRate * qCall.config.duration8
        /\ qCall.config.sampleRate * qCall.config.duration8 < 8 * (Len(qResult) + 1)

\* A triangle wave of 4 samples per second over 5/8 s: 2.5 rounds to 3, 2 are made.
C12_Witness ==
    /\ qCall.op = "generate"
    /\ qCall.type = "triangle"
    /\ qCall.config.sampleRate = 4
    /\ qCall.config.duration8 = 5
    /\ Len(qResult) = 2

(***************************************************************************)
(* C13: for every waveform type and every config (frequency > 0,           *)
(* amplitude >= 0, any offset, any phase, negative ones included) every    *)
(* sample generate returns lies in [offset - amplitude, offset + amplitude]. *)
(***************************************************************************)
C13_SamplesInRange ==
    qCall.op = "generate" =>
        \A k \in 1..Len(qResult) :
            /\ qCall.config.offset - qCall.config.amplitude <= qResult[k]
            /\ qResult[k] <= qCall.config.offset + qCall.config.amplitude

\* A sawtooth with a negative phase whose first sample is below offset - amplitude.
C13_Witness ==
    /\ qCall.op = "generate"
    /\ qCall.type = "sawtooth"
    /\ qCall.config.phase8 < 0
    /\ Len(qResult) > 0
    /\ qResult[1] < qCall.config.offset - qCall.config.amplitude

(***************************************************************************)
(* C14 as stated: for each of the five waveform types, two generate calls  *)
(* with the same type and config return identical buffers.                 *)
(***************************************************************************)
C14_SameArgumentsSameBuffer ==
    (qCall.op = "generate" /\ qPrev.valid) => qResult = qPrev.buffer

(***************************************************************************)
(* C14 amended: for sine, square, sawtooth and triangle two generate calls *)
(* with the same type and config return identical buffers, whatever        *)
(* Math.random() yields in between; for noise the two buffers have the     *)
(* same length but their samples come from Math.random() and may differ.   *)
(***************************************************************************)
C14_PeriodicTypesDeterministic ==
    (qCall.op = "generate" /\ qPrev.valid) =>
        /\ qCall.type # "noise" => qResult = qPrev.buffer
        /\ Len(qResult) = Len(qPrev.buffer)

\* A sine call repeated with the same arguments, returning a non-empty buffer.
C14_Witness ==
    /\ qCall.op = "generate"
    /\ qCall.type = "sine"
    /\ qPrev.valid
    /\ Len(qResult) = 5
    /\ qResult[2] # qResult[1]

(***************************************************************************)
(* File transport: useAudioInput with source = "file". Times are seconds.  *)
(* play, pause and seekTo read the isPlaying of the render they were       *)
(* created in; setIsPlaying and the other setters take effect at the next  *)
(* render. h is the hook's mutable data: its refs, the nodes it created    *)
(* and its queued React state.                                             *)
(***************************************************************************)
TransportFiles == {1, 2}
Duration(file) == IF file = 1 THEN 4 ELSE 3
SeekTimes == {1, 4}

Hook ==
    [fileBuffer |-> tFileBuffer, nodes |-> tNodes, sourceNodeRef |-> tSourceNodeRef,
     startTimeRef |-> tStartTimeRef, pausedAtRef |-> tPausedAtRef, state |-> tState]

\* A node after stop(): it plays nothing any more, so what it played is forgotten.
Stopped(node, connected) ==
    [buffer |-> 0, offset |-> 0, stopped |-> TRUE, connected |-> connected]

\* sourceNodeRef.current.stop(), when there is a current node
StopCurrent(h) ==
    IF h.sourceNodeRef = 0 THEN h.nodes
    ELSE [h.nodes EXCEPT ![h.sourceNodeRef] = Stopped(@, @.connected)]

\* createBufferSource(), buffer, loop, connect, connect, start(0, offset)
StartNode(nodes, buffer, offset) ==
    Append(nodes, [buffer |-> buffer, offset |-> offset, stopped |-> FALSE,
                   connected |-> TRUE])

cleanup(h) ==
    [h EXCEPT !.nodes = IF h.sourceNodeRef = 0 THEN h.nodes
                        ELSE [h.nodes EXCEPT ![h.sourceNodeRef] = Stopped(@, FALSE)],
              !.sourceNodeRef = 0,
              !.state = [h.state EXCEPT !.isReady = FALSE, !.sourceNode = 0,
                                        !.isPlaying = FALSE, !.pausedAt = 0],
              !.pausedAtRef = 0]

play(h, isPlaying, now) ==
    IF h.fileBuffer = 0 \/ isPlaying THEN h
    ELSE LET offset == h.pausedAtRef % Duration(h.fileBuffer)
         IN  [h EXCEPT !.nodes = StartNode(h.nodes, h.fileBuffer, offset),
                       !.sourceNodeRef = Len(h.nodes) + 1,
                       !.startTimeRef = now - offset,
                       !.state = [h.state EXCEPT !.sourceNode = Len(h.nodes) + 1,
                                                 !.startTime = now - offset,
                                                 !.isPlaying = TRUE]]

pause(h, isPlaying, now) ==
    IF h.sourceNodeRef = 0 \/ ~isPlaying THEN h
    ELSE [h EXCEPT !.nodes = StopCurrent(h),
                   !.pausedAtRef = now - h.startTimeRef,
                   !.state = [h.state EXCEPT !.pausedAt = now - h.startTimeRef,
                                             !.isPlaying = FALSE, !.sourceNode = 0]]

stop(h) ==
    [h EXCEPT !.nodes = StopCurrent(h),
              !.pausedAtRef = 0,
              !.state = [h.state EXCEPT !.pausedAt = 0, !.isPlaying = FALSE,
                                        !.sourceNode = 0]]

\* A seek that leaves the old node running.
seekToNoStop(h, isPlaying, now, time) ==
    IF h.fileBuffer = 0 THEN h
    ELSE IF isPlaying
    THEN [h EXCEPT !.nodes = StartNode(h.nodes, h.fileBuffer, time),
                   !.sourceNodeRef = Len(h.nodes) + 1,
                   !.startTimeRef = now - time,
                   !.state = [h.state EXCEPT !.sourceNode = Len(h.nodes) + 1,
                                             !.startTime = now - time]]
    ELSE [h EXCEPT !.pausedAtRef = time, !.state = [h.state EXCEPT !.pausedAt = time]]

seekTo(h, isPlaying, now, time) ==
    IF h.fileBuffer = 0 THEN h
    ELSE IF isPlaying
    THEN [h EXCEPT !.nodes = StartNode(StopCurrent(h), h.fileBuffer, time),
                   !.sourceNodeRef = Len(h.nodes) + 1,
                   !.startTimeRef = now - time,
                   !.state = [h.state EXCEPT !.sourceNode = Len(h.nodes) + 1,
                                             !.startTime = now - time]]
    ELSE [h EXCEPT !.pausedAtRef = time, !.state = [h.state EXCEPT !.pausedAt = time]]

\* The part of loadAudioFile after its awaits, for a call made in a render
\* whose isPlaying was `isPlaying`.
loadAudioFileResume(h, isPlaying, now, file) ==
    LET decoded == [h EXCEPT !.fileBuffer = file,
                             !.state = [h.state EXCEPT !.audioBuffer = file,
                                                        !.pausedAt = 0],
                             !.pausedAtRef = 0]
        played == play(decoded, isPlaying, now)
    IN  [played EXCEPT !.state = [played.state EXCEPT !.isReady = TRUE]]

\* The hook's data after a call; no more than MaxNodes nodes are followed.
Commit(h, last) ==
    /\ Len(h.nodes) <= MaxNodes
    /\ tFileBuffer' = h.fileBuffer
    /\ tNodes' = h.nodes
    /\ tSourceNodeRef' = h.sourceNodeRef
    /\ tStartTimeRef' = h.startTimeRef
    /\ tPausedAtRef' = h.pausedAtRef
    /\ tState' = h.state
    /\ tLast' = last
    /\ UNCHANGED OthersOfTransport

InitTransport ==
    /\ ParkOthersOfTransport
    /\ tNow = 0
    /\ tFileBuffer = 0
    /\ tNodes = <<>>
    /\ tSourceNodeRef = 0
    /\ tStartTimeRef = 0
    /\ tPausedAtRef = 0
    /\ tState = [isReady |-> FALSE, audioBuffer |-> 0, sourceNode |-> 0,
                 isPlaying |-> FALSE, startTime |-> 0, pausedAt |-> 0]
    /\ tSeenPlaying = FALSE
    /\ tLoads = <<>>
    /\ tLast = [op |-> "none"]

TransportPlay ==
    /\ Commit(play(Hook, tSeenPlaying, tNow), [op |-> "play"])
    /\ UNCHANGED <<tNow, tSeenPlaying, tLoads>>

TransportPause ==
    /\ Commit(pause(Hook, tSeenPlaying, tNow), [op |-> "pause"])
    /\ UNCHANGED <<tNow, tSeenPlaying, tLoads>>

TransportStop ==
    /\ Commit(stop(Hook), [op |-> "stop"])
    /\ UNCHANGED <<tNow, tSeenPlaying, tLoads>>

TransportSeekTo ==
    \E time \in SeekTimes :
        /\ Commit(seekTo(Hook, tSeenPlaying, tNow, time), [op |-> "seekTo", time |-> time])
        /\ UNCHANGED <<tNow, tSeenPlaying, tLoads>>

\* loadAudioFile(file) up to its first await.
TransportLoad ==
    \E file \in TransportFiles :
        /\ Len(tLoads) < MaxLoads
        /\ Commit(cleanup(Hook), [op |-> "loadAudioFile"])
        /\ tLoads' = Append(tLoads, [file |-> file, isPlaying |-> tSeenPlaying])
        /\ UNCHANGED <<tNow, tSeenPlaying>>

\* The awaits of one pending loadAudioFile are over: it resumes, or its
\* decodeAudioData rejected and it ends there.
TransportLoadResume ==
    \E i \in 1..Len(tLoads), decoded \in BOOLEAN :
        /\ Commit(IF decoded
                  THEN loadAudioFileResume(Hook, tLoads[i].isPlaying, tNow, tLoads[i].file)
                  ELSE Hook,
                  [op |-> "resume", decoded |-> decoded, file |-> tLoads[i].file,
                   wasPlaying |-> tLoads[i].isPlaying])
        /\ tLoads' = SubSeq(tLoads, 1, i - 1) \o SubSeq(tLoads, i + 1, Len(tLoads))
        /\ UNCHANGED <<tNow, tSeenPlaying>>

\* React renders the component again: new closures see the queued state.
TransportRender ==
    /\ tSeenPlaying # tState.isPlaying
    /\ tSeenPlaying' = tState.isPlaying
    /\ tLast' = [op |-> "render"]
    /\ UNCHANGED <<tNow, tFileBuffer, tNodes, tSourceNodeRef, tStartTimeRef,
                   tPausedAtRef, tState, tLoads>>
    /\ UNCHANGED OthersOfTransport

\* The audio clock advances.
TransportTick ==
    /\ tNow < MaxTime
    /\ tNow' = tNow + 1
    /\ tLast' = [op |-> "tick"]
    /\ UNCHANGED <<tFileBuffer, tNodes, tSourceNodeRef, tStartTimeRef,
                   tPausedAtRef, tState, tSeenPlaying, tLoads>>
    /\ UNCHANGED OthersOfTransport

NextTransport ==
    \/ TransportPlay \/ TransportPause \/ TransportStop \/ TransportSeekTo
    \/ TransportLoad \/ TransportLoadResume \/ TransportRender \/ TransportTick

SpecTransport == InitTransport /\ [][NextTransport]_vars

(***************************************************************************)
(* C15: on a loaded file, seekTo(t) while playing stops the current        *)
(* playback node and starts exactly one new node at offset t, isPlaying    *)
(* stays true and currentTime - startTime is t; seekTo(t) while not        *)
(* playing starts no node and records t, and a play() that finds t         *)
(* recorded starts its node at t modulo the file's duration. "Playing" is  *)
(* the hook's isPlaying, queued and rendered alike.                        *)
(***************************************************************************)
C15_SeekRestartsOrRecords ==
    [][/\ (tLast'.op = "seekTo" /\ tFileBuffer # 0 /\ tSeenPlaying /\ tState.isPlaying)
            => /\ tSourceNodeRef # 0
               /\ ~tNodes[tSourceNodeRef].stopped
               /\ tNodes'[tSourceNodeRef].stopped
               /\ Len(tNodes') = Len(tNodes) + 1
               /\ \A i \in 1..Len(tNodes) : i # tSourceNodeRef => tNodes'[i] = tNodes[i]
               /\ tNodes'[Len(tNodes')] =
                      [buffer |-> tFileBuffer, offset |-> tLast'.time,
                       stopped |-> FALSE, connected |-> TRUE]
               /\ tSourceNodeRef' = Len(tNodes')
               /\ tState'.isPlaying
               /\ tNow' - tState'.startTime = tLast'.time
               /\ tNow' - tStartTimeRef' = tLast'.time
       /\ (tLast'.op = "seekTo" /\ tFileBuffer # 0 /\ ~tSeenPlaying /\ ~tState.isPlaying)
            => /\ tNodes' = tNodes
               /\ tPausedAtRef' = tLast'.time
               /\ tState' = [tState EXCEPT !.pausedAt = tLast'.time]
               /\ tSourceNodeRef' = tSourceNodeRef
       /\ (tLast'.op = "play" /\ tFileBuffer # 0 /\ ~tSeenPlaying /\ ~tState.isPlaying)
            => /\ Len(tNodes') = Len(tNodes) + 1
               /\ tNodes'[Len(tNodes')].offset = tPausedAtRef % Duration(tFileBuffer)
               /\ tNodes'[Len(tNodes')].buffer = tFileBuffer
               /\ tState'.isPlaying]_vars

\* A seek to 4 s while a node was playing, after the clock has moved.
C15_Witness ==
    /\ tLast.op = "seekTo"
    /\ tLast.time = 4
    /\ tSeenPlaying /\ tState.isPlaying
    /\ tNow > 0
    /\ Len(tNodes) = 2
    /\ tNodes[1].stopped
    /\ tNodes[2] = [buffer |-> tFileBuffer, offset |-> 4, stopped |-> FALSE, connected |-> TRUE]
    /\ tSourceNodeRef = 2
    /\ tNow - tState.startTime = 4

(***************************************************************************)
(* C26: whenever a loadAudioFile(file) call gets through its awaits, the   *)
(* decoded file is playing from offset 0: the current node is a started    *)
(* node of the new buffer at offset 0 and isPlaying is true, whether or    *)
(* not a file was playing when loadAudioFile was called.                   *)
(***************************************************************************)
C26_LoadedFilePlays ==
    [][(tLast'.op = "resume" /\ tLast'.decoded)
          => /\ tFileBuffer' = tLast'.file
             /\ tSourceNodeRef' # 0
             /\ tNodes'[tSourceNodeRef'] =
                    [buffer |-> tLast'.file, offset |-> 0, stopped |-> FALSE,
                     connected |-> TRUE]
             /\ tState'.isPlaying]_vars

\* The first-load case, which works: a load called while nothing was playing
\* ends with the file playing from 0.
C26_FirstLoadPlays ==
    [][(tLast'.op = "resume" /\ tLast'.decoded /\ ~tLast'.wasPlaying
        /\ \A i \in 1..Len(tNodes) : tNodes[i].stopped)
          => /\ tSourceNodeRef' = Len(tNodes) + 1
             /\ tNodes'[tSourceNodeRef'] =
                    [buffer |-> tLast'.file, offset |-> 0, stopped |-> FALSE,
                     connected |-> TRUE]
             /\ tState'.isPlaying]_vars

\* A file replaced while another was playing: the new file is decoded and
\* ready, the old node is stopped, and nothing plays.
C26_Witness ==
    /\ tLast.op = "resume"
    /\ tLast.decoded
    /\ tLast.wasPlaying
    /\ tFileBuffer = tLast.file
    /\ tState.isReady
    /\ ~tState.isPlaying
    /\ tSourceNodeRef = 0
    /\ Len(tNodes) = 1
    /\ tNodes[1].stopped

(***************************************************************************)
(* C27: at most one playback node is started and not yet stopped, and      *)
(* isPlaying is true exactly when there is one.                            *)
(***************************************************************************)
C27_OneNodeIffPlaying ==
    LET running == {i \in 1..Len(tNodes) : ~tNodes[i].stopped}
    IN  /\ Cardinality(running) <= 1
        /\ tState.isPlaying <=> running # {}

\* What does hold: the current node, when isPlaying is set, is the newest
\* node and it is running.
C27_CurrentNodeRunsWhilePlaying ==
    tState.isPlaying
      => /\ tSourceNodeRef = Len(tNodes)
         /\ tSourceNodeRef # 0
         /\ ~tNodes[tSourceNodeRef].stopped

\* play() called twice before the next render: two nodes are running.
C27_Witness ==
    /\ tLast.op = "play"
    /\ ~tSeenPlaying
    /\ tState.isPlaying
    /\ Len(tNodes) = 2
    /\ ~tNodes[1].stopped
    /\ ~tNodes[2].stopped
    /\ tSourceNodeRef = 2


(***************************************************************************)
(* The shared AudioContext (utils/sharedAudioContext.ts) and the effects   *)
(* of the four audio hooks that obtain, create or close a context.         *)
(***************************************************************************)
AudioHooks == {"useAudioInput", "useAudioWindow", "useStereoAudioWindow", "useAudioFeatures"}

NewContext(by) == [by |-> by, closedBy |-> "none"]

\* getSharedAudioContext(): the contexts after the call and the pair returned.
getSharedAudioContext(contexts, sharedContext, sharedAnalyser) ==
    IF sharedContext = 0
    THEN [contexts |-> Append(contexts, NewContext("getSharedAudioContext")),
          context |-> Len(contexts) + 1, analyser |-> Len(contexts) + 1]
    ELSE [contexts |-> contexts, context |-> sharedContext, analyser |-> sharedAnalyser]

\* The hooks whose effect does `new AudioCtx()` and closes it in its cleanup.
OwnContextHooks == {"useStereoAudioWindow"}

InitCtx ==
    /\ ParkOthersOfCtx
    /\ aSharedContext = 0
    /\ aSharedAnalyser = 0
    /\ aContexts = <<>>
    /\ aMounted = [hook \in AudioHooks |-> 0]
    /\ aReturned = {}
    /\ aResets = 0

\* A hook's effect runs (mount, or a dependency changed after its cleanup).
CtxMount ==
    \E hook \in AudioHooks :
        /\ aMounted[hook] = 0
        /\ IF hook \in OwnContextHooks
           THEN /\ Len(aContexts) < MaxContexts
                /\ aContexts' = Append(aContexts, NewContext(hook))
                /\ aMounted' = [aMounted EXCEPT ![hook] = Len(aContexts) + 1]
                /\ UNCHANGED <<aSharedContext, aSharedAnalyser, aReturned>>
           ELSE LET got == getSharedAudioContext(aContexts, aSharedContext, aSharedAnalyser) IN
                /\ Len(got.contexts) <= MaxContexts
                /\ aContexts' = got.contexts
                /\ aSharedContext' = got.context
                /\ aSharedAnalyser' = got.analyser
                /\ aReturned' = aReturned \cup {<<got.context, got.analyser>>}
                /\ aMounted' = [aMounted EXCEPT ![hook] = got.context]
        /\ UNCHANGED aResets
        /\ UNCHANGED OthersOfCtx

\* A hook's effect cleanup runs.
CtxUnmount ==
    \E hook \in AudioHooks :
        /\ aMounted[hook] # 0
        /\ aMounted' = [aMounted EXCEPT ![hook] = 0]
        /\ aContexts' = IF hook \in OwnContextHooks
                        THEN [aContexts EXCEPT ![aMounted[hook]].closedBy = hook]
                        ELSE aContexts
        /\ UNCHANGED <<aSharedContext, aSharedAnalyser, aReturned, aResets>>
        /\ UNCHANGED OthersOfCtx

\* resetSharedAudioContext()
CtxReset ==
    /\ aResets < MaxResets
    /\ aResets' = aResets + 1
    /\ aContexts' = IF aSharedContext # 0
                    THEN [aContexts EXCEPT ![aSharedContext].closedBy = "resetSharedAudioContext"]
                    ELSE aContexts
    /\ aSharedContext' = 0
    /\ aSharedAnalyser' = IF aSharedContext # 0 THEN 0 ELSE aSharedAnalyser
    /\ aReturned' = {}
    /\ UNCHANGED aMounted
    /\ UNCHANGED OthersOfCtx

NextCtx == CtxMount \/ CtxUnmount \/ CtxReset

SpecCtx == InitCtx /\ [][NextCtx]_vars

(***************************************************************************)
(* C16: the four audio hooks share the one context/analyser pair of        *)
(* getSharedAudioContext(): while no reset has happened at most one        *)
(* AudioContext has been constructed and every mounted hook uses the       *)
(* shared one, no context is constructed or closed by a hook, and the      *)
(* calls to getSharedAudioContext() since the last reset all returned the  *)
(* same pair.                                                              *)
(***************************************************************************)
C16_SingleSharedContext ==
    /\ aResets = 0 => Len(aContexts) <= 1
    /\ aResets = 0 => \A hook \in AudioHooks : aMounted[hook] \in {0, aSharedContext}
    /\ \A i \in 1..Len(aContexts) :
           /\ aContexts[i].by \notin AudioHooks
           /\ aContexts[i].closedBy \notin AudioHooks
    /\ Cardinality(aReturned) <= 1

\* The part of C16 that the shared module alone guarantees.
C16_SameSharedPair ==
    /\ Cardinality(aReturned) <= 1
    /\ aReturned # {} => aReturned = {<<aSharedContext, aSharedAnalyser>>}
    /\ \A hook \in AudioHooks \ OwnContextHooks :
           (aResets = 0 /\ aMounted[hook] # 0) => aMounted[hook] = aSharedContext

\* useAudioFeatures and useStereoAudioWindow mounted together, no reset:
\* two contexts exist and the stereo hook uses one of its own.
C16_Witness ==
    /\ aResets = 0
    /\ aMounted["useAudioFeatures"] # 0
    /\ aMounted["useStereoAudioWindow"] # 0
    /\ aMounted["useAudioFeatures"] # aMounted["useStereoAudioWindow"]
    /\ Len(aContexts) = 2
    /\ aContexts[aMounted["useStereoAudioWindow"]].by = "useStereoAudioWindow"

(***************************************************************************)
(* Cube generator (useCubeSignal with cloneCount): the vertices, the       *)
(* traversal path and what one animate() frame publishes. Coordinates are  *)
(* fixed-point, 1/1000.                                                    *)
(***************************************************************************)
vertices ==
    << <<-500, -500, -500>>, <<500, -500, -500>>, <<500, 500, -500>>, <<-500, 500, -500>>,
       <<-500, -500, 500>>, <<500, -500, 500>>, <<500, 500, 500>>, <<-500, 500, 500>> >>

\* A path that goes back to vertex 0 instead of taking the edge 1-5.
pathBackToStart == <<0, 1, 2, 3, 0, 4, 5, 6, 7, 4, 0, 3, 7, 6, 2, 1, 0>>

path == <<0, 1, 2, 3, 0, 4, 5, 6, 7, 4, 0, 3, 7, 6, 2, 1, 5>>

\* Rotation matrices of rotationRef after 1, 40, 115, 200, 314 and 500 frames
\* at speed 1 (Euler XYZ angles 0.005 n, 0.01 n, 0.003 n).
CubeRotations ==
    << << <<1000, -3, 10>>, <<3, 1000, -5>>, <<-10, 5, 1000>> >>,
       << <<914, -110, 389>>, <<194, 964, -183>>, <<-355, 243, 903>> >>,
       << <<384, -138, 913>>, <<751, 622, -222>>, <<-537, 771, 343>> >>,
       << <<-343, 235, 909>>, <<937, 14, 350>>, <<70, 972, -225>> >>,
       << <<-588, 809, 2>>, <<2, -1, 1000>>, <<809, 588, -1>> >>,
       << <<20, -283, -959>>, <<-840, 516, -170>>, <<543, 809, -227>> >> >>

CubeConfigs == [pointsCount : {16, 40, 2000}, cloneCount : {0, 1, 2}]

\* vertices[idx].clone().applyQuaternion(quaternion)
ApplyRotation(v, r) ==
    [x |-> (r[1][1] * v[1] + r[1][2] * v[2] + r[1][3] * v[3]) \div 1000,
     y |-> (r[2][1] * v[1] + r[2][2] * v[2] + r[2][3] * v[3]) \div 1000,
     z |-> (r[3][1] * v[1] + r[3][2] * v[2] + r[3][3] * v[3]) \div 1000]

CubePasses(p) == Max(1, p.cloneCount)

CubePointsPerSegment(p) == (p.pointsCount \div CubePasses(p)) \div (Len(path) - 1)

\* The projected position of path vertex i (1..17) in pass `pass`:
\* ((v + offset) / (v.z + dist)) * scale, with dist 1.8, radius 1.3 and
\* scale 1.2 for one pass, 0.45 for several.
CubeStroke(p, rotation, pass) ==
    LET passes == CubePasses(p)
        dir == PolygonDir(pass, passes)
        xOffset == IF passes > 1 THEN (1300 * dir.x) \div 1000 ELSE 0
        yOffset == IF passes > 1 THEN (1300 * dir.y) \div 1000 ELSE 0
        scale == IF passes > 1 THEN 450 ELSE 1200
    IN  [i \in 1..Len(path) |->
            LET v == ApplyRotation(vertices[path[i] + 1], CubeRotations[rotation])
            IN  [x |-> (Quot((v.x + xOffset) * 1000, v.z + 1800) * scale) \div 1000,
                 y |-> (Quot((v.y + yOffset) * 1000, v.z + 1800) * scale) \div 1000]]

\* One channel of a frame: the segments of each pass interpolated with
\* t = j / pointsPerSegment, then `bufferA[bufferIdx - 1]` up to pointsCount.
CubeBuffer(p, rotation, xAxis) ==
    LET pps == CubePointsPerSegment(p)
        perPass == (Len(path) - 1) * pps
        written == CubePasses(p) * perPass
        strokes == [pass \in 0..(CubePasses(p) - 1) |-> CubeStroke(p, rotation, pass)]
        entry(k) ==
            LET stroke == strokes[(k - 1) \div perPass]
                i == (((k - 1) % perPass) \div pps) + 1
                j == ((k - 1) % perPass) % pps
                p1 == IF xAxis THEN stroke[i].x ELSE stroke[i].y
                p2 == IF xAxis THEN stroke[i + 1].x ELSE stroke[i + 1].y
            IN  Fin(p1 + ((p2 - p1) * j) \div pps)
    IN  [k \in 1..p.pointsCount |->
            IF k <= written THEN entry(k)
            ELSE IF written = 0 THEN NaN
            ELSE entry(written)]

InitCube ==
    /\ ParkOthersOfCube
    /\ cParams \in CubeConfigs
    /\ cRotation = 0
    /\ cA = ZeroBuffer(cParams.pointsCount)
    /\ cB = ZeroBuffer(cParams.pointsCount)
    /\ cWritten = 0
    /\ cFrames = 0

\* One animate() callback; `rotation` is where rotationRef stands.
CubeFrame ==
    \E rotation \in 1..Len(CubeRotations) :
        /\ cFrames < MaxCubeFrames
        /\ cFrames' = cFrames + 1
        /\ cRotation' = rotation
        /\ cA' = CubeBuffer(cParams, rotation, TRUE)
        /\ cB' = CubeBuffer(cParams, rotation, FALSE)
        /\ cWritten' = CubePasses(cParams) * (Len(path) - 1) * CubePointsPerSegment(cParams)
        /\ UNCHANGED cParams
        /\ UNCHANGED OthersOfCube

NextCube == CubeFrame

SpecCube == InitCube /\ [][NextCube]_vars

\* Number of coordinates in which two vertices differ.
CoordsDiffering(a, b) == Cardinality({n \in 1..3 : vertices[a + 1][n] # vertices[b + 1][n]})

\* The 12 edges of the cube, as pairs of vertex indices.
CubeEdges ==
    {e \in SUBSET (0..(Len(vertices) - 1)) :
        \E a, b \in e : e = {a, b} /\ CoordsDiffering(a, b) = 1}

(***************************************************************************)
(* C18: the path has 17 indices; each of its 16 segments joins two         *)
(* vertices that differ in exactly one coordinate; the segments cover all  *)
(* 12 edges of the cube; and each frame draws them in that order, segment  *)
(* i of every pass starting at the projection of vertex path[i].           *)
(***************************************************************************)
C18_PathIsOneStrokeOverAllEdges ==
    /\ Len(path) = 17
    /\ \A i \in 1..(Len(path) - 1) : CoordsDiffering(path[i], path[i + 1]) = 1
    /\ Cardinality(CubeEdges) = 12
    /\ CubeEdges \subseteq {{path[i], path[i + 1]} : i \in 1..(Len(path) - 1)}
    /\ (cFrames > 0 /\ CubePointsPerSegment(cParams) > 0)
         => \A pass \in 0..(CubePasses(cParams) - 1), i \in 1..(Len(path) - 1) :
               LET pps == CubePointsPerSegment(cParams)
                   k == (pass * (Len(path) - 1) + (i - 1)) * pps + 1
                   v == CubeStroke(cParams, cRotation, pass)[i]
               IN  cA[k] = Fin(v.x) /\ cB[k] = Fin(v.y)

\* A frame of 2000 points in two passes, away from the start rotation.
C18_Witness ==
    /\ cFrames > 0
    /\ cRotation = 3
    /\ cParams = [pointsCount |-> 2000, cloneCount |-> 2]
    /\ cWritten = 1984

(***************************************************************************)
(* C19: with pointsCount = 2000 and cloneCount = 1 every frame publishes   *)
(* exactly 2000 points per channel, all written by the traversal, and the  *)
(* stroke is closed: it ends on the vertex it started from.                *)
(***************************************************************************)
C19_ClosedStrokeOf2000 ==
    (cFrames > 0 /\ cParams = [pointsCount |-> 2000, cloneCount |-> 1])
      => LET stroke == CubeStroke(cParams, cRotation, 0)
         IN  /\ Len(cA) = 2000 /\ Len(cB) = 2000
             /\ cWritten = 2000
             /\ cA[1] = Fin(stroke[1].x) /\ cB[1] = Fin(stroke[1].y)
             /\ path[Len(path)] = path[1]
             /\ stroke[Len(path)] = stroke[1]

\* The part of C19 that holds: 2000 points per channel, none of them filled.
C19_Exactly2000 ==
    (cFrames > 0 /\ cParams = [pointsCount |-> 2000, cloneCount |-> 1])
      => /\ Len(cA) = 2000 /\ Len(cB) = 2000
         /\ cWritten = 2000
         /\ \A k \in 1..2000 : ~cA[k].nan /\ ~cB[k].nan

\* A frame of the scenario: 2000 points, starting on vertex 0 and ending on
\* the way to vertex 5, which is projected elsewhere.
C19_Witness ==
    /\ cFrames > 0
    /\ cParams = [pointsCount |-> 2000, cloneCount |-> 1]
    /\ Len(cA) = 2000
    /\ cWritten = 2000
    /\ cA[1] = Fin(CubeStroke(cParams, cRotation, 0)[1].x)
    /\ CubeStroke(cParams, cRotation, 0)[Len(path)] # CubeStroke(cParams, cRotation, 0)[1]

(***************************************************************************)
(* XYPlot in XY mode: the trail colours computed once per colour and the   *)
(* trail positions written by every useFrame callback. Positions are in    *)
(* 1/1000 of the half width; a colour is the fade factor alpha = t * t of  *)
(* its vertex, in units of 1 / (MAX_TRAIL_POINTS - 1)^2.                   *)
(***************************************************************************)
MAX_TRAIL_POINTS == 8192

\* Channel pairs: a beam that dwells and then jumps, an even ramp, and a
\* figure with a repeated sample.
TrailSignals ==
    { [a |-> <<0, 10, 20, 900, 910>>, b |-> <<0, 0, 0, 500, 500>>],
      [a |-> <<-500, -250, 0, 250, 500>>, b |-> <<-500, -250, 0, 250, 500>>],
      [a |-> <<0, 0, 800, 800>>, b |-> <<0, 0, 0, -600>>],
      [a |-> <<300, -700, 300, 310, 320, 330>>, b |-> <<0, 0, 0, 5, 10, 15>>] }

TrailSpeeds == {14, 20, 27, 34}

\* Math.min(MAX_TRAIL_POINTS, Math.floor(speed * PERSISTENCE_SECONDS))
ActiveTrailLength(speed) == Min(MAX_TRAIL_POINTS, (speed * 15) \div 100)

\* alpha = Math.pow(t, 2) with t = 1 - i / (MAX_TRAIL_POINTS - 1)
TrailAlpha(i) == (MAX_TRAIL_POINTS - 1 - i) * (MAX_TRAIL_POINTS - 1 - i)

\* Squared distance between sample idx and the sample before it.
DistanceToPrevious2(signal, idx) ==
    LET prev == SafeIdx(idx - 1, Len(signal.a))
        dx == signal.a[idx + 1] - signal.a[prev + 1]
        dy == signal.b[idx + 1] - signal.b[prev + 1]
    IN  dx * dx + dy * dy

\* The trail of one frame: vertex i shows sample floor(currentIndex - i) % len
\* with the colour of vertex i.
TrailVertices(signal, index, speed) ==
    [n \in 1..ActiveTrailLength(speed) |->
        LET sampleIdx == SafeIdx(index - (n - 1), Len(signal.a))
        IN  [x |-> signal.a[sampleIdx + 1],
             y |-> signal.b[sampleIdx + 1],
             color |-> TrailAlpha(n - 1)]]

InitTrail ==
    /\ ParkOthersOfTrail
    /\ rSignal \in TrailSignals
    /\ rSpeed \in TrailSpeeds
    /\ rIndex = 0
    /\ rTrail = <<>>
    /\ rFrames = 0

\* One useFrame callback in XY mode; `advance` is how far speed * delta
\* moves the floor of signalIndex.
TrailFrame ==
    \E advance \in 0..2 :
        /\ rFrames < MaxTrailFrames
        /\ rFrames' = rFrames + 1
        /\ rIndex' = rIndex + advance
        /\ rTrail' = TrailVertices(rSignal, rIndex', rSpeed)
        /\ UNCHANGED <<rSignal, rSpeed>>
        /\ UNCHANGED OthersOfTrail

NextTrail == TrailFrame

SpecTrail == InitTrail /\ [][NextTrail]_vars

(***************************************************************************)
(* C20: the brightness of every drawn trail sample is                      *)
(* min(1, K / (distanceToPreviousSample + eps)), a non-increasing function *)
(* of the distance to its predecessor alone: of two drawn samples the one  *)
(* with the smaller or equal distance is at least as bright.               *)
(***************************************************************************)
C20_BrightnessFollowsDistance ==
    \A n, m \in 1..Len(rTrail) :
        LET sampleN == SafeIdx(rIndex - (n - 1), Len(rSignal.a))
            sampleM == SafeIdx(rIndex - (m - 1), Len(rSignal.a))
        IN  DistanceToPrevious2(rSignal, sampleN) <= DistanceToPrevious2(rSignal, sampleM)
              => rTrail[n].color >= rTrail[m].color

\* What the trail colours do follow: the position in the trail, newest
\* brightest, whatever the distances are.
C20_BrightnessFollowsPosition ==
    \A n, m \in 1..Len(rTrail) : n <= m => rTrail[n].color >= rTrail[m].color

\* A frame whose beam sample follows a long jump and whose second trail
\* vertex follows a short step: the slower sample is drawn dimmer.
C20_Witness ==
    /\ rFrames > 0
    /\ Len(rTrail) >= 2
    /\ DistanceToPrevious2(rSignal, SafeIdx(rIndex - 1, Len(rSignal.a)))
         < DistanceToPrevious2(rSignal, SafeIdx(rIndex, Len(rSignal.a)))
    /\ rTrail[2].color < rTrail[1].color

(***************************************************************************)
(* DecisionEngine fast path: the focus scalar of the useFrame callback of  *)
(* useAIBrain. Focus values are 1/1000 (0 is sharp, 1000 is soft); the     *)
(* lerp factor delta * 3 is in 1/1000 as well.                             *)
(***************************************************************************)
FastMoods == {"digital", "calm", "aggressive", "organic", "retro", "neutral"}

\* rmsGlobal values of a frame, in tenths: quiet, exactly 0.8, and a peak.
FastRms == {3, 8, 9}

\* delta * 3 for frames of 16 ms and 33 ms
FastLerpFactors == {48, 99}

\* A rule table in which the digital mood is the soft one.
TargetFocusDigitalSoft(mood, rms10) ==
    IF rms10 > 8 THEN 20 ELSE IF mood = "digital" THEN 400 ELSE 50

\* let targetFocus = mood === "digital" ? 0.05 : 0.4;
\* if (rmsGlobal > 0.8) targetFocus = 0.02;
TargetFocus(mood, rms10) ==
    IF rms10 > 8 THEN 20 ELSE IF mood = "digital" THEN 50 ELSE 400

\* THREE.MathUtils.lerp(x, y, t) = (1 - t) * x + t * y
MathLerp(x, y, t1000) == ((1000 - t1000) * x + t1000 * y) \div 1000

InitFast ==
    /\ ParkOthersOfFast
    /\ pMood \in FastMoods
    /\ pRms10 = 0
    /\ pTargetFocus = 0
    /\ pFocus = 100
    /\ pFrames = 0

\* One useFrame callback, as far as the focus is concerned.
FastFrame ==
    \E rms10 \in FastRms, t1000 \in FastLerpFactors :
        /\ pFrames < MaxFastFrames
        /\ pFrames' = pFrames + 1
        /\ pRms10' = rms10
        /\ pTargetFocus' = TargetFocus(pMood, rms10)
        /\ pFocus' = MathLerp(pFocus, TargetFocus(pMood, rms10), t1000)
        /\ UNCHANGED pMood
        /\ UNCHANGED OthersOfFast

NextFast == FastFrame

SpecFast == InitFast /\ [][NextFast]_vars

(***************************************************************************)
(* C21 as stated: when RMS <= 0.8 the focus target chosen for the digital  *)
(* mood is softer (larger) than the one chosen for every other mood.       *)
(***************************************************************************)
C21_DigitalIsSofter ==
    (pFrames > 0 /\ pRms10 <= 8 /\ pMood = "digital")
      => \A mood \in FastMoods \ {"digital"} : pTargetFocus > TargetFocus(mood, pRms10)

(***************************************************************************)
(* C21 amended: when RMS <= 0.8 the focus target is 0.05 for the digital   *)
(* mood and 0.4 for every other mood, so digital is the sharper one; when  *)
(* RMS > 0.8 it is 0.02 for every mood; the focus moves towards the target *)
(* without passing it.                                                     *)
(***************************************************************************)
C21_DigitalIsSharper ==
    [][pFrames' # pFrames =>
          /\ (pRms10' <= 8 /\ pMood = "digital") => pTargetFocus' = 50
          /\ (pRms10' <= 8 /\ pMood # "digital") => pTargetFocus' = 400
          /\ pRms10' > 8 => pTargetFocus' = 20
          /\ pFocus <= pTargetFocus' => (pFocus <= pFocus' /\ pFocus' <= pTargetFocus')
          /\ pFocus >= pTargetFocus' => (pFocus >= pFocus' /\ pFocus' >= pTargetFocus')]_vars

\* A quiet frame of a digital profile: the target is 0.05 and the focus has
\* moved below its initial 0.1.
C21_Witness ==
    /\ pFrames > 0
    /\ pMood = "digital"
    /\ pRms10 <= 8
    /\ pTargetFocus = 50
    /\ pFocus < 100

(***************************************************************************)
(* useStereoAudioWindow: the effect's asynchronous setup() and its         *)
(* cleanup. An instance is one run of the effect; interval ids are         *)
(* positive numbers handed out by window.setInterval in order.             *)
(***************************************************************************)
StereoSources == {"mic", "osc"}

\* let ctx = new AudioCtx(); oscA, oscB null; setup() has not reached setInterval
NewStereoInstance(source) ==
    [source |-> source, phase |-> IF source = "mic" THEN "awaitingMic" ELSE "done",
     torn |-> FALSE, closed |-> FALSE, mic |-> FALSE,
     oscStarted |-> FALSE, oscStopped |-> FALSE, interval |-> 0]

\* connectOscFallback(): oscA.start(); oscB.start(...)
connectOscFallback(inst) == [inst EXCEPT !.oscStarted = TRUE]

\* The next id window.setInterval returns.
NextIntervalId == 1 + Cardinality({i \in 1..Len(zInstances) : zInstances[i].interval # 0})

\* intervalRef.current = window.setInterval(..., updateIntervalMs)
SetupTail(inst, id) == [inst EXCEPT !.phase = "done", !.interval = id]

InitStereo ==
    /\ ParkOthersOfStereo
    /\ zInstances = <<>>
    /\ zMounted = 0
    /\ zIntervalRef = 0
    /\ zIntervals = {}
    /\ zLastFired = 0

\* The effect runs: setup() up to its first await, or to its end for "osc".
StereoMount ==
    \E source \in StereoSources :
        LET id == NextIntervalId
            started == NewStereoInstance(source)
            inst == IF source = "mic" THEN started
                    ELSE SetupTail(connectOscFallback(started), id)
        IN  /\ zMounted = 0
            /\ Len(zInstances) < MaxStereoInstances
            /\ zInstances' = Append(zInstances, inst)
            /\ zMounted' = Len(zInstances) + 1
            /\ zIntervalRef' = IF inst.interval # 0 THEN inst.interval ELSE zIntervalRef
            /\ zIntervals' = IF inst.interval # 0 THEN zIntervals \cup {inst.interval}
                             ELSE zIntervals
            /\ UNCHANGED zLastFired
            /\ UNCHANGED OthersOfStereo

\* getUserMedia settles and setup() runs to its end. On a closed context
\* createMediaStreamSource may throw, which takes the oscillator fallback.
StereoMicSettles ==
    \E i \in 1..Len(zInstances), granted \in BOOLEAN, throws \in BOOLEAN :
        LET inst == zInstances[i]
            connected == IF granted /\ ~(throws /\ inst.closed)
                         THEN [inst EXCEPT !.mic = TRUE]
                         ELSE connectOscFallback(inst)
            done == SetupTail(connected, NextIntervalId)
        IN  /\ inst.phase = "awaitingMic"
            /\ throws => (granted /\ inst.closed)
            /\ zInstances' = [zInstances EXCEPT ![i] = done]
            /\ zIntervalRef' = IF done.interval # 0 THEN done.interval ELSE zIntervalRef
            /\ zIntervals' = IF done.interval # 0 THEN zIntervals \cup {done.interval}
                             ELSE zIntervals
            /\ UNCHANGED <<zMounted, zLastFired>>
            /\ UNCHANGED OthersOfStereo

\* The effect's cleanup: clearInterval(intervalRef.current), ctx.close(),
\* oscA?.stop(), oscB?.stop() with the oscillators this instance has by now.
StereoUnmount ==
    /\ zMounted # 0
    /\ zInstances' = [zInstances EXCEPT ![zMounted] =
                         [@ EXCEPT !.torn = TRUE, !.closed = TRUE,
                                   !.oscStopped = @ \/ zInstances[zMounted].oscStarted]]
    /\ zIntervals' = zIntervals \ {zIntervalRef}
    /\ zMounted' = 0
    /\ UNCHANGED <<zIntervalRef, zLastFired>>
    /\ UNCHANGED OthersOfStereo

\* The browser fires the callback of an interval that was not cleared.
StereoTick ==
    \E i \in 1..Len(zInstances) :
        /\ zInstances[i].interval \in zIntervals
        /\ zLastFired' = i
        /\ zLastFired' # zLastFired
        /\ UNCHANGED <<zInstances, zMounted, zIntervalRef, zIntervals>>
        /\ UNCHANGED OthersOfStereo

NextStereo == StereoMount \/ StereoMicSettles \/ StereoUnmount \/ StereoTick

SpecStereo == InitStereo /\ [][NextStereo]_vars

(***************************************************************************)
(* C22: once an instance of the stereo hook has been torn down and its     *)
(* setup has finished, in whichever order, its analysis interval is not    *)
(* running and it has no oscillator started and not stopped.               *)
(***************************************************************************)
C22_NothingRunsAfterTeardown ==
    \A i \in 1..Len(zInstances) :
        (zInstances[i].torn /\ zInstances[i].phase = "done")
          => /\ zInstances[i].interval \notin zIntervals
             /\ ~(zInstances[i].oscStarted /\ ~zInstances[i].oscStopped)

\* What the cleanup does achieve: an instance whose setup had finished
\* before a cleanup that found its own interval id has nothing left running.
C22_CleanAfterFinishedSetup ==
    [][(zMounted # 0 /\ zMounted' = 0 /\ zInstances[zMounted].phase = "done"
        /\ zIntervalRef = zInstances[zMounted].interval)
          => /\ zInstances'[zMounted].interval \notin zIntervals'
             /\ ~(zInstances'[zMounted].oscStarted /\ ~zInstances'[zMounted].oscStopped)]_vars

\* Torn down while the microphone request was pending; the request was then
\* refused: the interval of that instance fires and its oscillators run.
C22_Witness ==
    /\ Len(zInstances) >= 1
    /\ zInstances[1].source = "mic"
    /\ zInstances[1].torn
    /\ zInstances[1].phase = "done"
    /\ zInstances[1].oscStarted /\ ~zInstances[1].oscStopped
    /\ zInstances[1].interval \in zIntervals
    /\ zLastFired = 1

(***************************************************************************)
(* useAudioInput as a session: the effect that connects the microphone,    *)
(* its cleanup, and loadAudioFile. A node is a MediaStreamAudioSourceNode  *)
(* ("mic", of the effect run that requested it) or an AudioBufferSource    *)
(* ("file"); isPlaying is taken as rendered as soon as it is set.          *)
(***************************************************************************)
InputSources == {"mic", "file"}

\* stop() when the node has one, then disconnect(); sourceNodeRef.current = null
Release(nodes, ref) ==
    IF ref = 0 THEN nodes
    ELSE [nodes EXCEPT ![ref] = [@ EXCEPT !.connected = FALSE,
                                          !.stopped = @ \/ nodes[ref].kind = "file"]]

\* micSource.connect(analyserNode) / bufferSource.connect(...); start(0, offset)
Connect(nodes, kind, run) ==
    Append(nodes, [kind |-> kind, run |-> run, connected |-> TRUE, stopped |-> FALSE])

InitInput ==
    /\ ParkOthersOfInput
    /\ iSource \in InputSources
    /\ iInstance = 0
    /\ iMounted = FALSE
    /\ iMicPending = {}
    /\ iNodes = <<>>
    /\ iSourceNodeRef = 0
    /\ iPlaying = FALSE
    /\ iLoads = <<>>
    /\ iLast = "init"

\* The effect runs (mount, or the source prop changed after the cleanup):
\* connectSource() up to its await.
InputEffect ==
    \E source \in InputSources :
        /\ ~iMounted
        /\ iInstance < MaxInputInstances
        /\ iInstance = 0 => source = iSource
        /\ iSource' = source
        /\ iInstance' = iInstance + 1
        /\ iMounted' = TRUE
        /\ iNodes' = Release(iNodes, iSourceNodeRef)
        /\ iSourceNodeRef' = 0
        /\ iMicPending' = IF source = "mic" THEN iMicPending \cup {iInstance + 1}
                          ELSE iMicPending
        /\ iLast' = "effect"
        /\ UNCHANGED <<iPlaying, iLoads>>
        /\ UNCHANGED OthersOfInput

\* The effect's cleanup (unmount, or the source prop is about to change).
InputCleanup ==
    /\ iMounted
    /\ iMounted' = FALSE
    /\ iNodes' = Release(iNodes, iSourceNodeRef)
    /\ iSourceNodeRef' = 0
    /\ iPlaying' = FALSE
    /\ iLast' = "cleanup"
    /\ UNCHANGED <<iSource, iInstance, iMicPending, iLoads>>
    /\ UNCHANGED OthersOfInput

\* getUserMedia of effect run `run` settles.
InputMicSettles ==
    \E run \in iMicPending, granted \in BOOLEAN :
        /\ iMicPending' = iMicPending \ {run}
        /\ granted => Len(iNodes) < MaxNodes
        /\ iNodes' = IF granted THEN Connect(iNodes, "mic", run) ELSE iNodes
        /\ iSourceNodeRef' = IF granted THEN Len(iNodes) + 1 ELSE iSourceNodeRef
        /\ iLast' = IF granted THEN "micConnected" ELSE "micDenied"
        /\ UNCHANGED <<iSource, iInstance, iMounted, iPlaying, iLoads>>
        /\ UNCHANGED OthersOfInput

\* loadAudioFile(file) up to its first await: cleanup().
InputLoad ==
    /\ iMounted
    /\ Len(iLoads) < MaxLoads
    /\ iLoads' = Append(iLoads, [isPlaying |-> iPlaying])
    /\ iNodes' = Release(iNodes, iSourceNodeRef)
    /\ iSourceNodeRef' = 0
    /\ iPlaying' = FALSE
    /\ iLast' = "loadAudioFile"
    /\ UNCHANGED <<iSource, iInstance, iMounted, iMicPending>>
    /\ UNCHANGED OthersOfInput

\* The awaits of a pending loadAudioFile are over: play(), unless decoding
\* failed or the call was made while isPlaying was true.
InputLoadResume ==
    \E decoded \in BOOLEAN :
        LET plays == decoded /\ ~iLoads[1].isPlaying
        IN  /\ iLoads # <<>>
            /\ iLoads' = Tail(iLoads)
            /\ plays => Len(iNodes) < MaxNodes
            /\ iNodes' = IF plays THEN Connect(iNodes, "file", iInstance) ELSE iNodes
            /\ iSourceNodeRef' = IF plays THEN Len(iNodes) + 1 ELSE iSourceNodeRef
            /\ iPlaying' = (plays \/ iPlaying)
            /\ iLast' = IF plays THEN "filePlays" ELSE "loadEnded"
            /\ UNCHANGED <<iSource, iInstance, iMounted, iMicPending>>
            /\ UNCHANGED OthersOfInput

NextInput ==
    InputEffect \/ InputCleanup \/ InputMicSettles \/ InputLoad \/ InputLoadResume

SpecInput == InitInput /\ [][NextInput]_vars

(***************************************************************************)
(* C23: a microphone request that settles after the session was torn      *)
(* down, the source was changed or a file was loaded connects nothing; at  *)
(* most one source node is connected at a time and it is the one recorded  *)
(* in sourceNodeRef; none is connected after teardown.                     *)
(***************************************************************************)
C23_OneSourceNoneAfterTeardown ==
    /\ [](LET connected == {n \in 1..Len(iNodes) : iNodes[n].connected}
          IN  /\ Cardinality(connected) <= 1
              /\ connected \subseteq {iSourceNodeRef}
              /\ ~iMounted => connected = {}
              /\ \A n \in connected :
                    iNodes[n].kind = "mic" => (iNodes[n].run = iInstance /\ iSource = "mic"))
    /\ [][(iLast' = "micConnected" /\ (~iMounted \/ iLoads # <<>> \/ iSourceNodeRef # 0))
             => iNodes' = iNodes]_vars

\* What the session does keep: a request that settles while its own effect
\* run is mounted and nothing else was connected leaves exactly the
\* microphone connected, and each cleanup releases the node sourceNodeRef holds.
C23_UndisturbedMicAndCleanup ==
    [][/\ (iLast' = "micConnected" /\ iMounted /\ iSourceNodeRef = 0
           /\ \A n \in 1..Len(iNodes) : ~iNodes[n].connected)
            => {n \in 1..Len(iNodes') : iNodes'[n].connected} = {iSourceNodeRef'}
       /\ (iLast' = "cleanup" /\ iSourceNodeRef # 0)
            => (~iNodes'[iSourceNodeRef].connected /\ iSourceNodeRef' = 0)]_vars

\* Torn down while the permission prompt was open; the permission was then
\* granted: the microphone is connected to the analyser of a dead session.
C23_Witness ==
    /\ iLast = "micConnected"
    /\ ~iMounted
    /\ iMicPending = {}
    /\ iSourceNodeRef # 0
    /\ iNodes[iSourceNodeRef].kind = "mic"
    /\ iNodes[iSourceNodeRef].connected

(***************************************************************************)
(* useTextSignal: the effect that starts the animate loop, and how one     *)
(* animate callback ends. A text is known by the number of outline points  *)
(* font.generateShapes yields for it.                                      *)
(***************************************************************************)
TextStrings == {"", "AI", "   "}

TextProps ==
    [active : BOOLEAN, text : TextStrings, pointsCount : {2, 4}, cloneCount : {1, 2}]

\* allPoints.length: a glyph with an outline gives its points plus the closing
\* one; a space has no shape.
AllPointsLength(text) == IF text = "AI" THEN 9 ELSE 0

\* if (!active || !font || !text) return;
TextLoopStarts(props, font) == props.active /\ font /\ props.text # ""

\* How animate() ends: "empty" returns at `allPoints.length === 0`, "threw"
\* is the TypeError of allPoints[NaN] when pointsPerPass is 1, "published"
\* reaches setSignalA, setSignalB and requestAnimationFrame(animate).
AnimateOutcome(props) ==
    LET pointsPerPass == props.pointsCount \div Max(1, props.cloneCount)
    IN  IF AllPointsLength(props.text) = 0 THEN "empty"
        ELSE IF pointsPerPass = 1 THEN "threw"
        ELSE "published"

InitText ==
    /\ ParkOthersOfText
    /\ kProps \in TextProps
    /\ kFont = FALSE
    /\ kPending = FALSE
    /\ kFrames = 0
    /\ kPublished = 0
    /\ kRenders = 0
    /\ kLast = "none"

\* FontLoader delivers the font: setFont, and the effect runs with it.
TextFontLoaded ==
    /\ ~kFont
    /\ kFont' = TRUE
    /\ kPending' = TextLoopStarts(kProps, TRUE)
    /\ kLast' = "none"
    /\ UNCHANGED <<kProps, kFrames, kPublished, kRenders>>
    /\ UNCHANGED OthersOfText

\* A render with other props: the cleanup cancels the registered callback
\* and the effect runs again.
TextRender ==
    \E props \in TextProps :
        /\ kRenders < MaxTextRenders
        /\ props # kProps
        /\ kProps' = props
        /\ kPending' = TextLoopStarts(props, kFont)
        /\ kRenders' = kRenders + 1
        /\ kLast' = "none"
        /\ UNCHANGED <<kFont, kFrames, kPublished>>
        /\ UNCHANGED OthersOfText

\* The browser runs the registered animate callback.
TextFrame ==
    /\ kPending
    /\ kFrames < MaxTextFrames
    /\ kFrames' = kFrames + 1
    /\ kLast' = AnimateOutcome(kProps)
    /\ kPublished' = kPublished + (IF AnimateOutcome(kProps) = "published" THEN 1 ELSE 0)
    /\ kPending' = (AnimateOutcome(kProps) = "published")
    /\ UNCHANGED <<kProps, kFont, kRenders>>
    /\ UNCHANGED OthersOfText

NextText == TextFontLoaded \/ TextRender \/ TextFrame

SpecText == InitText /\ [][NextText]_vars

(***************************************************************************)
(* C25: while the text generator is active with a loaded font and a        *)
(* non-empty text, every animation frame publishes a snapshot and          *)
(* registers the next frame: the loop never stops on its own, also for a   *)
(* text whose glyphs have no outline points.                               *)
(***************************************************************************)
C25_EveryFramePublishesAndReregisters ==
    [][(kFrames' # kFrames /\ kProps.active /\ kFont /\ kProps.text # "")
          => (kPublished' = kPublished + 1 /\ kPending')]_vars

\* For a text with outline points and more than one point per pass the loop
\* does keep going.
C25_OutlinedTextKeepsGoing ==
    [][(kFrames' # kFrames /\ AllPointsLength(kProps.text) > 0
        /\ kProps.pointsCount \div kProps.cloneCount > 1)
          => (kPublished' = kPublished + 1 /\ kPending')]_vars

\* Active, font loaded, text of spaces: the first frame returned early and
\* nothing is registered any more.
C25_Witness ==
    /\ kProps.active
    /\ kFont
    /\ kProps.text = "   "
    /\ kFrames = 1
    /\ kLast = "empty"
    /\ kPublished = 0
    /\ ~kPending

(***************************************************************************)
(* The band averages of useAudioFeatures over every fftSize the options    *)
(* allow and three device sample rates: the interval callback applied to   *)
(* spectra of the analyser's length.                                       *)
(***************************************************************************)
BandAnalysers ==
    [sampleRate : {8000, 44100, 48000}, fftSize : {256, 512, 1024, 2048, 4096, 8192}]

InitBands ==
    /\ ParkOthersOfBands
    /\ hAnalyser \in BandAnalysers
    /\ hFft = ZeroBuffer0(hAnalyser.fftSize \div 2)
    /\ hBands = InitialBands
    /\ hTicks = 0

\* One run of the interval callback: the spectrum, then the three bands.
BandTick ==
    \E freqData \in FeatSpectra(hAnalyser.fftSize \div 2) :
        /\ hTicks < MaxBandTicks
        /\ hFft' = FftNorm(freqData)
        /\ hBands' = NextBands(hBands, FftNorm(freqData), hAnalyser)
        /\ hTicks' = hTicks + 1
        /\ UNCHANGED hAnalyser
        /\ UNCHANGED OthersOfBands

NextBandTick == BandTick

SpecBands == InitBands /\ [][NextBandTick]_vars

(***************************************************************************)
(* C30: for every supported fftSize and device sample rate each band's     *)
(* instant value is the sum over the bins actually read divided by the     *)
(* number of those bins, at least one bin is read per band, and the        *)
(* instant and smoothed values are finite after every tick.                *)
(***************************************************************************)
C30_BandIsMeanOfBinsRead ==
    hTicks > 0 =>
        LET lowBin == BinOf(20, hAnalyser)
            lowEnd == BinOf(160, hAnalyser)
            midEnd == BinOf(2000, hAnalyser)
            highEnd == BinOf(12000, hAnalyser)
            binsRead(start, end) == Min(end, Len(hFft)) - start
            isMean(band, start, end) ==
                /\ binsRead(start, end) >= 1
                /\ ~band.instant.nan
                /\ band.instant.v =
                       SumRange(hFft, start, Min(end, Len(hFft))) \div binsRead(start, end)
                /\ ~band.smoothed.nan
        IN  /\ isMean(hBands.low, lowBin, lowEnd)
            /\ isMean(hBands.mid, lowEnd, midEnd)
            /\ isMean(hBands.high, midEnd, highEnd)

\* When the low band spans a bin and the high band ends inside the
\* spectrum, every band is the mean of the bins read and stays finite.
C30_MeanWhenBandsInsideSpectrum ==
    (/\ hTicks > 0
     /\ BinOf(20, hAnalyser) < BinOf(160, hAnalyser)
     /\ BinOf(12000, hAnalyser) <= Len(hFft))
        => C30_BandIsMeanOfBinsRead

\* fftSize 256 at 44100 Hz: the low band reads no bin and is NaN.
C30_Witness ==
    /\ hTicks > 0
    /\ hAnalyser = [sampleRate |-> 44100, fftSize |-> 256]
    /\ BinOf(20, hAnalyser) = BinOf(160, hAnalyser)
    /\ hBands.low.instant.nan
    /\ hBands.low.smoothed.nan

====
